---- MODULE Spec2Model ----
(***************************************************************************)
(* Master orchestration engine of the AG2 multi-agent system: the Redis    *)
(* backed state store (core/memory.py), the routing service                *)
(* (core/routing.py), the decomposer and the adaptive router               *)
(* (ag2_controller/), the dispatcher (core/dispatcher.py) and the pipeline *)
(* orchestrator (core/pipeline.py).                                        *)
(*                                                                         *)
(* Conventions.                                                            *)
(*  - A Redis hash is read back in insertion order (hgetall on a small     *)
(*    hash); overwriting a field keeps its position.  The registry is      *)
(*    therefore a sequence of declarations, one per agent id.              *)
(*  - A formatted id f"{task_id}-S{n}" / f"{task_id}-P{n}" is the record   *)
(*    [task, tag, n]; task ids contain no separator characters.            *)
(*  - Scores are fixed-point integers in units of 1/5000 (load is kept in  *)
(*    tenths, latencies in ms).                                            *)
(*  - A handler is split at its awaits: the pipeline run at the registry   *)
(*    read, each post and each response (with the record_result that       *)
(*    follows it); dispatch at the registry read, each metrics read, the   *)
(*    post, its response, get_subtask, record_route and                    *)
(*    append_dispatch_log.  The local computation between two awaits is    *)
(*    part of the step of one of them.  register_agent (hset, sadd,        *)
(*    record), handle_task (registry read, decomposition, store_subtasks)  *)
(*    and handle_result (rpush, record) are one step each.                 *)
(*    plan_and_route is split at decompose_task, at the candidate filter   *)
(*    of each subtask and at each metrics read.  Where handle_task calls   *)
(*    run concurrently in one process (SpecTasks) each is split at its     *)
(*    registry read, its decomposition and its store_subtasks.             *)
(*  - The store is always reachable, except that a metrics read of         *)
(*    plan_and_route may fail; url is a function of agent_id.              *)
(*  - workCalls and resultCalls are histories: they record the calls made  *)
(*    and no choice of the program depends on their content; so is         *)
(*    decomposition, the value the last handle_task call returned.         *)
(*  - record(agent_id, snapshot) json-dumps every field of the snapshot    *)
(*    before its hset; a snapshot with last_heartbeat set (a datetime)     *)
(*    makes json.dumps raise, and nothing is written.                      *)
(*  - A worker's registration loop (agents/common/base_agent.py) is split  *)
(*    at its post, the answer to it and the end of its sleep; a failed     *)
(*    attempt is one that raises an httpx.HTTPError.  What the master does *)
(*    with the POST is register_agent, modelled on its own.                *)
(***************************************************************************)
EXTENDS Integers, Sequences, FiniteSets, TLC

VARIABLES
    registry,     \* hash "routing": sequence of CapabilityDeclaration
    capIndex,     \* sets "cap_index:{capability}": capability -> set of agent ids
    metrics,      \* hashes "metrics:{agent_id}": agent id -> stored fields
    results,      \* lists "results:{task_id}"
    subtaskList,  \* lists "subtasks:{task_id}"
    subtaskKey,   \* keys "subtask:{task_id}:{sub_id}": the set of stored SubTasks
    routes,       \* keys "route:{task_id}:{sub_id}": set of [task_id, sub_id, decision]
    dispatchLog,  \* lists "dispatch_log:{task_id}"
    counter,      \* MasterDecomposer._counter: the next value of itertools.count(1)
    run,          \* the locals of the PipelineOrchestrator.run call
    disp,         \* the locals of each Dispatcher.dispatch call
    workCalls,    \* every POST {url}/work issued so far, in issue order, with its reply
    inflight,     \* indices into workCalls of the calls that have no response yet
    plan,         \* the locals of the AG2Controller.plan_and_route call
    peerCounter,  \* MasterDecomposer._counter of a second orchestrator process
    resultCalls,  \* every payload passed to record_result so far, in call order
    decomposition,\* the DecompositionResponse of the last handle_task call that returned
    worker,       \* the locals of each worker's BaseAgent._register_with_master call
    intake        \* the locals of each handle_task call that is followed await by await

store == <<registry, capIndex, metrics, results, subtaskList, subtaskKey, routes, dispatchLog>>
net == <<workCalls, inflight>>
ctl == <<plan, peerCounter, decomposition, worker, intake>>
vars == <<registry, capIndex, metrics, results, subtaskList, subtaskKey, routes,
          dispatchLog, counter, run, disp, workCalls, inflight, plan, peerCounter,
          resultCalls, decomposition, worker, intake>>

---------------------------------------------------------------------------
(* Bounds of the model *)

MaxCounter == 3
MaxResults == 3
MaxFailures == 7
MaxStored == 4

Agents == {"a1", "a2", "a3"}
Tasks == {"t1", "t2"}
Capabilities == {"analyze", "retrieve", "evaluate", "finalize"}

\* The capability lists each worker may register with (conlist(str, min_length=1)).
CapLists(a) ==
    CASE a = "a1" -> { <<"analyze", "finalize">>, <<"analyze">> }
      [] a = "a2" -> { <<"retrieve">>, <<"retrieve", "evaluate">> }
      [] OTHER    -> { <<"evaluate">>, <<"finalize">> }

\* Python's None: "None" where the value is a string, Null where it is a model
\* (a record), NoLatency where it is a number.
None == "None"
Null == [null |-> TRUE]
NoLatency == 0 - 1

Range(s) == { s[i] : i \in 1..Len(s) }
Min(a, b) == IF a <= b THEN a ELSE b

---------------------------------------------------------------------------
(* shared/schemas.py *)

\* MetricSnapshot as submitted: avg_latency_ms may be None.
MetricSnapshots ==
    { [load |-> 1, avg_latency_ms |-> 100, recent_failures |-> 0],
      [load |-> 9, avg_latency_ms |-> 4000, recent_failures |-> 3],
      [load |-> 0, avg_latency_ms |-> NoLatency, recent_failures |-> 0],
      [load |-> 0, avg_latency_ms |-> 0, recent_failures |-> 7] }

CapabilityDeclaration(a, caps, m) ==
    [agent_id |-> a, capabilities |-> caps, metrics |-> m]

ExecutionStatus == {"succeeded", "retryable_failure", "fatal_failure"}

---------------------------------------------------------------------------
(* core/memory.py: RedisMemoryAdapter *)

AgentIndex(reg, a) ==
    IF \E i \in 1..Len(reg) : reg[i].agent_id = a
    THEN CHOOSE i \in 1..Len(reg) : reg[i].agent_id = a
    ELSE 0

\* Variant for C31: the hash is replaced by the one declaration registered.
HsetRoutingReplacing(reg, decl) == <<decl>>
\* Variant for C20: every registration adds an entry (a list instead of a hash).
HsetRoutingAppend(reg, decl) == Append(reg, decl)
\* hset(routing_key, agent_id, json): upsert keyed by agent id.
HsetRouting(reg, decl) ==
    LET i == AgentIndex(reg, decl.agent_id)
    IN IF i = 0 THEN Append(reg, decl) ELSE [reg EXCEPT ![i] = decl]

\* sadd(cap_index:{capability}, agent_id) for every declared capability.
SaddCapIndex(idx, decl) ==
    [c \in Capabilities |->
        IF c \in Range(decl.capabilities) THEN idx[c] \cup {decl.agent_id} ELSE idx[c]]

\* A snapshot is written with the field last_heartbeat only when it is set.
HasHeartbeat(snapshot) == "last_heartbeat" \in DOMAIN snapshot

\* record: hset(metrics:{agent_id}, mapping) of the fields that are not None, each
\* passed through json.dumps.  model_dump keeps a set last_heartbeat as a datetime,
\* of which json.dumps raises TypeError while the mapping is built: nothing is
\* written.
RecordMetrics(m, a, snapshot) ==
    LET old == m[a]
        lat == IF snapshot.avg_latency_ms # NoLatency THEN snapshot.avg_latency_ms
               ELSE IF old = Null THEN NoLatency ELSE old.avg_latency_ms
    IN IF HasHeartbeat(snapshot) THEN m
       ELSE [m EXCEPT ![a] = [load |-> snapshot.load,
                              avg_latency_ms |-> lat,
                              recent_failures |-> snapshot.recent_failures]]

\* get_metrics: Null (None) for an empty hash, else the snapshot of the stored fields.
GetMetrics(a) == metrics[a]

\* get_capabilities: every declaration of the hash.
GetCapabilities == registry

\* get_results: lrange(results:{task_id}, 0, -1), each item parsed back into the
\* payload that was dumped.
GetResults(task_id) == results[task_id]

\* Variant for C18: a result replaces the earlier results of its sub id.
RecordResultOverwriting(res, payload) ==
    [res EXCEPT ![payload.task_id] =
        Append(SelectSeq(@, LAMBDA r : r.sub_id # payload.sub_id), payload)]
\* record_result: rpush(results:{task_id}, payload) ...
RecordResult(res, payload) ==
    [res EXCEPT ![payload.task_id] = Append(@, payload)]
\* ... and, when the payload carries metrics, record(payload.agent_id, payload.metrics).
RecordResultMetrics(m, payload) ==
    IF payload.metrics = Null THEN m
    ELSE RecordMetrics(m, payload.agent_id, payload.metrics)

\* store_subtasks: nothing on empty input; else per subtask an rpush to
\* subtasks:{task_id} and a set of subtask:{task_id}:{sub_id}, in one pipeline.
RECURSIVE StoreList(_, _)
StoreList(lst, subtasks) ==
    IF subtasks = <<>> THEN lst
    ELSE StoreList([lst EXCEPT ![Head(subtasks).task_id] = Append(@, Head(subtasks))],
                   Tail(subtasks))
RECURSIVE StoreKeys(_, _)
\* Variant for C29: only the first subtask of the call gets its key.
StoreKeysFirstOnly(keys, subtasks) ==
    IF subtasks = <<>> THEN keys
    ELSE LET st == Head(subtasks)
         IN { x \in keys : ~(x.task_id = st.task_id /\ x.sub_id = st.sub_id) }
                \cup {st}
\* Variant for C17: a key that exists is left as it is (set with nx).
StoreKeysIfAbsent(keys, subtasks) ==
    IF subtasks = <<>> THEN keys
    ELSE LET st == Head(subtasks)
         IN StoreKeys(IF \E x \in keys : x.task_id = st.task_id /\ x.sub_id = st.sub_id
                      THEN keys ELSE keys \cup {st},
                      Tail(subtasks))
StoreKeys(keys, subtasks) ==
    IF subtasks = <<>> THEN keys
    ELSE LET st == Head(subtasks)
         IN StoreKeys({ x \in keys : ~(x.task_id = st.task_id /\ x.sub_id = st.sub_id) }
                        \cup {st},
                      Tail(subtasks))

\* get_subtask: the SubTask stored under subtask:{task_id}:{sub_id}, or None.
GetSubtask(task_id, sub_id) ==
    LET hits == { x \in subtaskKey : x.task_id = task_id /\ x.sub_id = sub_id }
    IN IF hits = {} THEN Null ELSE CHOOSE x \in hits : TRUE

\* Variant for C7: the route key is written only when it does not exist yet.
RecordRouteIfAbsent(rts, decision, subtask) ==
    IF \E r \in rts : r.task_id = subtask.task_id /\ r.sub_id = subtask.sub_id
    THEN rts
    ELSE rts \cup {[task_id |-> subtask.task_id, sub_id |-> subtask.sub_id,
                     decision |-> decision]}
\* record_route: set(route:{subtask.task_id}:{subtask.sub_id}, decision).
RecordRoute(rts, decision, subtask) ==
    { r \in rts : ~(r.task_id = subtask.task_id /\ r.sub_id = subtask.sub_id) }
        \cup {[task_id |-> subtask.task_id, sub_id |-> subtask.sub_id,
                decision |-> decision]}

\* The decision stored under route:{task_id}:{sub_id}, or None.
GetRoute(rts, task_id, sub_id) ==
    LET hits == { r \in rts : r.task_id = task_id /\ r.sub_id = sub_id }
    IN IF hits = {} THEN Null ELSE (CHOOSE r \in hits : TRUE).decision

\* Variant for C19: the log is trimmed to its newest entry.
AppendDispatchLogTrimmed(log, entry) ==
    [log EXCEPT ![entry.task_id] = <<entry>>]
\* append_dispatch_log: rpush(dispatch_log:{task_id}, entry).
AppendDispatchLog(log, entry) ==
    [log EXCEPT ![entry.task_id] = Append(@, entry)]

---------------------------------------------------------------------------
(* core/dispatcher.py: Dispatcher.register_agent -> RoutingService.register   *)
(* -> RedisMemoryAdapter.register_agent                                       *)

RegisterAgent(a, caps, m) ==
    /\ LET decl == CapabilityDeclaration(a, caps, m)
       IN /\ registry' = HsetRouting(registry, decl)
          /\ capIndex' = SaddCapIndex(capIndex, decl)
          /\ metrics' = IF m = Null THEN metrics ELSE RecordMetrics(metrics, a, m)
    /\ UNCHANGED <<results, subtaskList, subtaskKey, routes, dispatchLog,
                   counter, ctl, resultCalls, run, disp, workCalls, inflight>>

---------------------------------------------------------------------------
(* core/pipeline.py: PipelineOrchestrator *)

base_stages == <<"analyze", "retrieve", "evaluate">>
finalize_capability == "finalize"

\* Variant for C28: the last declaration listing the capability.
SelectAgentLast(capabilities, capability) ==
    LET hits == { i \in 1..Len(capabilities) :
                    capability \in Range(capabilities[i].capabilities) }
    IN IF hits = {} THEN Null
       ELSE capabilities[CHOOSE i \in hits : \A j \in hits : i >= j]
\* _select_agent: the first declaration listing the capability, or None.
SelectAgent(capabilities, capability) ==
    LET hits == { i \in 1..Len(capabilities) :
                    capability \in Range(capabilities[i].capabilities) }
    IN IF hits = {} THEN Null
       ELSE capabilities[CHOOSE i \in hits : \A j \in hits : i <= j]

\* run, lines 38-42: walk base_stages[k..] in order, appending (capability, agent_id)
\* (the url of the tuple is the url of agent_id); the first stage without an agent
\* raises RuntimeError and ends the walk.
RECURSIVE SelectBaseStages(_, _, _)
\* Variant for C3: a stage without an agent is skipped instead of raising.
SelectBaseStagesSkipping(capabilities, k, acc) ==
    IF k > Len(base_stages) THEN [missing |-> None, stage_agents |-> acc]
    ELSE LET agent == SelectAgent(capabilities, base_stages[k])
         IN SelectBaseStages(capabilities, k + 1,
                IF agent = Null THEN acc
                ELSE Append(acc, [capability |-> base_stages[k],
                                  agent_id |-> agent.agent_id]))
SelectBaseStages(capabilities, k, acc) ==
    IF k > Len(base_stages) THEN [missing |-> None, stage_agents |-> acc]
    ELSE LET agent == SelectAgent(capabilities, base_stages[k])
         IN IF agent = Null
            THEN [missing |-> base_stages[k], stage_agents |-> acc]
            ELSE SelectBaseStages(capabilities, k + 1,
                    Append(acc, [capability |-> base_stages[k],
                                 agent_id |-> agent.agent_id]))

\* run, lines 44-46: the finalizer is appended when one is registered.
WithFinalizer(capabilities, stage_agents) ==
    LET finalizer == SelectAgent(capabilities, finalize_capability)
    IN IF finalizer = Null THEN stage_agents
       ELSE Append(stage_agents, [capability |-> finalize_capability,
                                  agent_id |-> finalizer.agent_id])

\* The keys of the context dict: one caller-supplied key and f"stage_{capability}".
StageKey(capability) == "stage_" \o capability
ContextKeys == {"hint"} \cup { StageKey(c) : c \in Capabilities }
Absent == "absent"
EmptyContext == [k \in ContextKeys |-> Absent]
\* The TaskObjective payloads submitted: task id and context.
TaskObjectives ==
    { [task_id |-> "t1", context |-> EmptyContext],
      [task_id |-> "t2", context |-> [EmptyContext EXCEPT !["hint"] = "h"]] }

\* f"{task.task_id}-P{idx}"
PipelineSubId(task_id, idx) == [task |-> task_id, tag |-> "P", n |-> idx]

\* What a worker's /work endpoint can answer: no answer within the timeout, a
\* non-2xx status, or a JSON body with optional status, output and error.
StatusValues == ExecutionStatus \cup {Absent, "accepted"}
OutputValues == {"null", "o1", "o2"}
WorkResponse(k, s, o, e) == [kind |-> k, status |-> s, output |-> o, error |-> e]
WorkResponses ==
    { WorkResponse("timeout", Absent, "null", None),
      WorkResponse("http_error", Absent, "null", None),
      WorkResponse("json", Absent, "null", None),
      WorkResponse("json", "succeeded", "o1", None),
      WorkResponse("json", "retryable_failure", "o2", "err"),
      WorkResponse("json", "fatal_failure", "null", None),
      WorkResponse("json", "accepted", "o1", None) }

\* line 73: raise_for_status (and the timeout of the post itself).
RaisesForStatus(resp) == resp.kind # "json"
\* line 76: payload.get("status", ExecutionStatus.SUCCEEDED.value)
StatusValue(resp) == IF resp.status = Absent THEN "succeeded" ELSE resp.status
\* line 78: payload.get("output") or {}
Output(resp) == IF resp.output = "null" THEN "{}" ELSE resp.output
\* Variant for C1: only a fatal failure breaks the loop.
StopsOnFatalOnly(status) == status = "fatal_failure"
\* line 107: if status != ExecutionStatus.SUCCEEDED: break
StopsPipeline(status) == status # "succeeded"
\* Variant for C4: the output of the first stage instead of the last.
FinalOutputOfFirst(stage_results) ==
    IF Len(stage_results) = 0 THEN None ELSE stage_results[1].output
\* line 113: stage_results[-1].output if stage_results else None
FinalOutput(stage_results) ==
    IF Len(stage_results) = 0 THEN None ELSE stage_results[Len(stage_results)].output

IdleRun ==
    [pc |-> "idle", task_id |-> None, capabilities |-> <<>>,
     stage_agents |-> <<>>, idx |-> 0, call |-> 0,
     stage_results |-> <<>>, intermediate_context |-> EmptyContext,
     previous_output |-> None, response |-> Null, error |-> None]

\* run, lines 35-50: read the registry, choose the stage agents, set up the locals.
PipelineStart(task) ==
    /\ run.pc = "idle"
    /\ LET capabilities == GetCapabilities
           base == SelectBaseStages(capabilities, 1, <<>>)
       IN run' = IF base.missing # None
                 THEN [run EXCEPT !.pc = "raised", !.task_id = task.task_id,
                                  !.capabilities = capabilities,
                                  !.error = "MissingStageAgent"]
                 ELSE [run EXCEPT !.pc = "ready", !.task_id = task.task_id,
                                  !.capabilities = capabilities,
                                  !.stage_agents =
                                      WithFinalizer(capabilities, base.stage_agents),
                                  !.idx = 1,
                                  !.intermediate_context = task.context]
    /\ UNCHANGED <<store, counter, ctl, resultCalls, disp, net>>

\* Variant for C5: the next post does not wait for the response of the last one.
PostEnabledWithoutAwait(r) == r.pc \in {"ready", "waiting"}
\* line 52: the loop issues the call of stage idx once the previous iteration ended.
PostEnabled(r) == r.pc = "ready"

\* Variant for C33: the agent of the stage is chosen again from a registry read at
\* the post.
PipelinePostRereading ==
    /\ PostEnabled(run)
    /\ run.idx <= Len(run.stage_agents)
    /\ LET stage == run.stage_agents[run.idx]
           agent == SelectAgent(GetCapabilities, stage.capability)
           work == [caller |-> "pipeline",
                    to |-> IF agent = Null THEN stage.agent_id ELSE agent.agent_id,
                    task_id |-> run.task_id,
                    sub_id |-> PipelineSubId(run.task_id, run.idx),
                    command |-> stage.capability,
                    previous_output |-> run.previous_output,
                    context |-> run.intermediate_context,
                    reply |-> None]
       IN /\ workCalls' = Append(workCalls, work)
          /\ inflight' = inflight \cup {Len(workCalls) + 1}
          /\ run' = [run EXCEPT !.pc = "waiting", !.call = Len(workCalls) + 1]
    /\ UNCHANGED <<store, counter, ctl, resultCalls, disp>>
\* Variant for C27: every request carries a fresh context instead of the running one.
PipelinePostFreshContext ==
    /\ PostEnabled(run)
    /\ run.idx <= Len(run.stage_agents)
    /\ LET stage == run.stage_agents[run.idx]
           work == [caller |-> "pipeline",
                    to |-> stage.agent_id,
                    task_id |-> run.task_id,
                    sub_id |-> PipelineSubId(run.task_id, run.idx),
                    command |-> stage.capability,
                    previous_output |-> run.previous_output,
                    context |-> EmptyContext,
                    reply |-> None]
       IN /\ workCalls' = Append(workCalls, work)
          /\ inflight' = inflight \cup {Len(workCalls) + 1}
          /\ run' = [run EXCEPT !.pc = "waiting", !.call = Len(workCalls) + 1]
    /\ UNCHANGED <<store, counter, ctl, resultCalls, disp>>
\* run, lines 53-72: build the WorkRequest of stage idx and post it.
PipelinePost ==
    /\ PostEnabled(run)
    /\ run.idx <= Len(run.stage_agents)
    /\ LET stage == run.stage_agents[run.idx]
           work == [caller |-> "pipeline",
                    to |-> stage.agent_id,
                    task_id |-> run.task_id,
                    sub_id |-> PipelineSubId(run.task_id, run.idx),
                    command |-> stage.capability,
                    previous_output |-> run.previous_output,
                    context |-> run.intermediate_context,
                    reply |-> None]
       IN /\ workCalls' = Append(workCalls, work)
          /\ inflight' = inflight \cup {Len(workCalls) + 1}
          /\ run' = [run EXCEPT !.pc = "waiting", !.call = Len(workCalls) + 1]
    /\ UNCHANGED <<store, counter, ctl, resultCalls, disp>>

\* run, lines 73-114: the response of stage idx arrives.
PipelineReceive(resp) ==
    /\ run.pc = "waiting"
    /\ inflight' = inflight \ {run.call}
    /\ workCalls' = [workCalls EXCEPT ![run.call].reply = resp.kind]
    /\ IF RaisesForStatus(resp)
       THEN /\ run' = [run EXCEPT !.pc = "raised", !.error = resp.kind]
            /\ UNCHANGED <<results, metrics, resultCalls>>
       ELSE IF StatusValue(resp) \notin ExecutionStatus
       THEN /\ run' = [run EXCEPT !.pc = "raised", !.error = "ValueError"]
            /\ UNCHANGED <<results, metrics, resultCalls>>
       ELSE LET stage == run.stage_agents[run.idx]
                status == StatusValue(resp)
                output == Output(resp)
                sub_id == PipelineSubId(run.task_id, run.idx)
                stage_result == [stage |-> stage.capability, agent_id |-> stage.agent_id,
                                 sub_id |-> sub_id, status |-> status,
                                 output |-> output, error |-> resp.error]
                result_payload == [task_id |-> run.task_id, sub_id |-> sub_id,
                                   agent_id |-> stage.agent_id, status |-> status,
                                   output |-> output, error |-> resp.error,
                                   metrics |-> Null]
                stage_results == Append(run.stage_results, stage_result)
                last == StopsPipeline(status) \/ run.idx = Len(run.stage_agents)
            IN /\ results' = RecordResult(results, result_payload)
               /\ resultCalls' = Append(resultCalls, result_payload)
               /\ metrics' = RecordResultMetrics(metrics, result_payload)
               /\ run' =
                    IF last
                    THEN [run EXCEPT
                            !.pc = "done",
                            !.stage_results = stage_results,
                            !.intermediate_context =
                                IF StopsPipeline(status) THEN @
                                ELSE [@ EXCEPT ![StageKey(stage.capability)] = output],
                            !.previous_output =
                                IF StopsPipeline(status) THEN @ ELSE output,
                            !.response = [task_id |-> run.task_id,
                                          stages |-> stage_results,
                                          final_output |-> FinalOutput(stage_results)]]
                    ELSE [run EXCEPT
                            !.pc = "ready",
                            !.idx = @ + 1,
                            !.stage_results = stage_results,
                            !.intermediate_context =
                                [@ EXCEPT ![StageKey(stage.capability)] = output],
                            !.previous_output = output]
    /\ UNCHANGED <<registry, capIndex, subtaskList, subtaskKey, routes,
                   dispatchLog, counter, ctl, disp>>

---------------------------------------------------------------------------
(* ag2_controller/decomposer.py: MasterDecomposer *)

\* f"{payload.task_id}-S{next(self._counter)}"
SubId(task_id, n) == [task |-> task_id, tag |-> "S", n |-> n]

\* The (agent_id, capability) occurrences of the registry, in iteration order.
RECURSIVE Occurrences(_)
\* Variant for C15: one occurrence per declaration (its first capability).
OccurrencesPerAgent(capabilities) ==
    IF capabilities = <<>> THEN <<>>
    ELSE LET decl == Head(capabilities)
         IN <<[agent_id |-> decl.agent_id, cap |-> decl.capabilities[1]]>>
            \o Occurrences(Tail(capabilities))
Occurrences(capabilities) ==
    IF capabilities = <<>> THEN <<>>
    ELSE LET decl == Head(capabilities)
         IN [k \in 1..Len(decl.capabilities) |->
                [agent_id |-> decl.agent_id, cap |-> decl.capabilities[k]]]
            \o Occurrences(Tail(capabilities))

\* Variant for C34: the sub ids of every call are numbered from 1.
DecomposeTaskPerCall(task_id, capabilities, next) ==
    LET occ == Occurrences(capabilities)
    IN [k \in 1..Len(occ) |->
            [task_id |-> task_id,
             sub_id |-> SubId(task_id, k),
             command |-> occ[k].cap,
             description |-> occ[k].cap,
             target_capability |-> occ[k].cap,
             metadata |-> [agent_hint |-> occ[k].agent_id]]]
\* Variant for C23: an empty registry yields one placeholder subtask.
DecomposeTaskPlaceholder(task_id, capabilities, next) ==
    LET occ == IF capabilities = <<>> THEN <<[agent_id |-> None, cap |-> "noop"]>>
               ELSE Occurrences(capabilities)
    IN [k \in 1..Len(occ) |->
            [task_id |-> task_id,
             sub_id |-> SubId(task_id, next + k - 1),
             command |-> occ[k].cap,
             description |-> occ[k].cap,
             target_capability |-> occ[k].cap,
             metadata |-> [agent_hint |-> occ[k].agent_id]]]
\* Variant for C16: the hint names the first agent of the registry.
DecomposeTaskHintFirst(task_id, capabilities, next) ==
    LET occ == Occurrences(capabilities)
    IN [k \in 1..Len(occ) |->
            [task_id |-> task_id,
             sub_id |-> SubId(task_id, next + k - 1),
             command |-> occ[k].cap,
             description |-> occ[k].cap,
             target_capability |-> occ[k].cap,
             metadata |-> [agent_hint |-> capabilities[1].agent_id]]]
\* decompose_task: one SubTask per occurrence, ids drawn from the counter (whose
\* next value is `next`).
DecomposeTask(task_id, capabilities, next) ==
    LET occ == Occurrences(capabilities)
    IN [k \in 1..Len(occ) |->
            [task_id |-> task_id,
             sub_id |-> SubId(task_id, next + k - 1),
             command |-> occ[k].cap,
             description |-> occ[k].cap,
             target_capability |-> occ[k].cap,
             metadata |-> [agent_hint |-> occ[k].agent_id]]]

---------------------------------------------------------------------------
(* ag2_controller/adaptive_router.py: AdaptiveRouterAgent *)

\* _score_candidate, in units of 1/5000: 1.0 without metrics, else
\* load + min(recent_failures, 5) * 0.1 + (avg_latency_ms or 1000.0) / 5000.0
ScoreCandidate(m) ==
    IF m = Null THEN 5000
    ELSE m.load * 500
         + Min(m.recent_failures, 5) * 500
         + (IF m.avg_latency_ms = NoLatency \/ m.avg_latency_ms = 0
            THEN 1000 ELSE m.avg_latency_ms)

\* f"{score:.2f}": the score in hundredths, rounded.
Format2f(score) == (score + 25) \div 50

\* Variant for C26: of the candidates with the minimal score the last is selected.
DecideRouteLastTied(command, candidate_list, scores) ==
    LET best == CHOOSE k \in 1..Len(scores) :
                    /\ \A j \in 1..Len(scores) : scores[k].score <= scores[j].score
                    /\ \A j \in (k + 1)..Len(scores) : scores[j].score > scores[k].score
    IN [selected_agent |-> scores[best].agent_id,
        reason |-> [selected |-> scores[best].agent_id,
                    score |-> Format2f(scores[best].score),
                    candidates |-> Len(candidate_list)],
        considered |-> candidate_list,
        scores |-> scores]
\* Variant for C11: the first candidate is selected, whatever the scores.
DecideRouteFirst(command, candidate_list, scores) ==
    [selected_agent |-> scores[1].agent_id,
     reason |-> [selected |-> scores[1].agent_id,
                 score |-> Format2f(scores[1].score),
                 candidates |-> Len(candidate_list)],
     considered |-> candidate_list,
     scores |-> scores]
\* decide_route, lines 35-45, for a non-empty candidate list and its scores dict
\* (a sequence in insertion order; candidate ids are unique, being keys of the
\* registry hash): min(scores, key=scores.get) is the first minimal key.
DecideRoute(command, candidate_list, scores) ==
    LET best == CHOOSE k \in 1..Len(scores) :
                    /\ \A j \in 1..Len(scores) : scores[k].score <= scores[j].score
                    /\ \A j \in 1..(k - 1) : scores[j].score > scores[k].score
    IN [selected_agent |-> scores[best].agent_id,
        reason |-> [selected |-> scores[best].agent_id,
                    score |-> Format2f(scores[best].score),
                    candidates |-> Len(candidate_list)],
        considered |-> candidate_list,
        scores |-> scores]

---------------------------------------------------------------------------
(* core/routing.py: RoutingService *)

\* Variant for C32: the declarations of the agents in the capability index set.
CandidatesFromIndex(command) ==
    SelectSeq(GetCapabilities, LAMBDA decl : decl.agent_id \in capIndex[command])
\* candidates_for_command: the declarations listing the command, in registry order.
CandidatesForCommand(command) ==
    SelectSeq(GetCapabilities, LAMBDA decl : command \in Range(decl.capabilities))

---------------------------------------------------------------------------
(* core/dispatcher.py: Dispatcher *)

\* handle_task: read the registry, decompose, store the subtasks, return the
\* decomposition.
HandleTask(task) ==
    LET capabilities == GetCapabilities
        subtasks == DecomposeTask(task.task_id, capabilities, counter)
    IN /\ counter + Len(subtasks) - 1 <= MaxCounter
       /\ counter' = counter + Len(subtasks)
       /\ subtaskList' = StoreList(subtaskList, subtasks)
       /\ subtaskKey' = StoreKeys(subtaskKey, subtasks)
       /\ decomposition' = [task_id |-> task.task_id, subtasks |-> subtasks]
       /\ UNCHANGED <<registry, capIndex, metrics, results, routes, dispatchLog,
                      plan, peerCounter, worker, intake, resultCalls, run, disp,
                      workCalls, inflight>>

DispatchIds == {"d1", "d2"}

\* The WorkRequest payloads posted to /dispatch.
WorkRequest(t, s, c) == [task_id |-> t, sub_id |-> s, command |-> c]
WorkRequests ==
    { WorkRequest("t1", SubId("t1", 1), "evaluate"),
      WorkRequest("t1", [task |-> "t1", tag |-> "X", n |-> 0], "evaluate") }

IdleDispatch(d) ==
    [id |-> d, pc |-> "idle", work |-> Null, candidate_list |-> <<>>, scores |-> <<>>,
     decision |-> Null, subtask |-> Null, call |-> 0, error |-> None,
     returned |-> Null]

\* Variant for C9: the error is swallowed and the decision computed so far returned.
RaiseReturningDecision(c, error) ==
    [c EXCEPT !.pc = "raised", !.error = error, !.returned = c.decision]
\* dispatch has no try/except: an exception of decide_route or _post_work ends the
\* call, which returns nothing.
Raise(c, error) == [c EXCEPT !.pc = "raised", !.error = error]

\* Variant for C8: a failed post is tried once more.
OnPostFailureRetry(c, kind) ==
    IF Cardinality({ i \in 1..Len(workCalls) : workCalls[i].caller = c.id }) < 2
    THEN [c EXCEPT !.pc = "routed"]
    ELSE Raise(c, kind)
\* Variant for C30: a failed post is ignored and the call goes on.
OnPostFailureIgnored(c, kind) == [c EXCEPT !.pc = "lookup"]
\* _post_work, lines 75-80: the timeout of the post or raise_for_status raises.
OnPostFailure(c, kind) == Raise(c, kind)

\* _fallback_subtask
FallbackSubtask(work) ==
    [task_id |-> work.task_id,
     sub_id |-> work.sub_id,
     command |-> work.command,
     description |-> "",
     target_capability |-> work.command,
     metadata |-> [fallback |-> TRUE]]

\* Variant for C10: the entry names the first candidate considered.
DispatchLogEntryOfFirst(work, decision) ==
    [task_id |-> work.task_id, sub_id |-> work.sub_id,
     agent_id |-> decision.considered[1].agent_id,
     route_reason |-> decision.reason]
\* dispatch, lines 59-65 (created_at, the wall clock, is left out).
DispatchLogEntry(work, decision) ==
    [task_id |-> work.task_id, sub_id |-> work.sub_id,
     agent_id |-> decision.selected_agent,
     route_reason |-> decision.reason]

\* Variant for C13: an empty candidate list yields a decision that selects nobody.
StartRoutingUnchecked(c, work, candidates) ==
    IF candidates = <<>>
    THEN [c EXCEPT !.pc = "routed", !.work = work,
                   !.decision = [selected_agent |-> None,
                                 reason |-> [selected |-> None, score |-> 0,
                                             candidates |-> 0],
                                 considered |-> <<>>, scores |-> <<>>]]
    ELSE [c EXCEPT !.pc = "scoring", !.work = work, !.candidate_list = candidates]
\* decide_route, lines 25-27: candidate_list = list(candidates); an empty list raises
\* ValueError("No candidates available ...") before any metrics is read.
StartRouting(c, work, candidates) ==
    IF candidates = <<>>
    THEN Raise([c EXCEPT !.work = work], "NoCandidates")
    ELSE [c EXCEPT !.pc = "scoring", !.work = work, !.candidate_list = candidates]

\* dispatch, lines 48-50: get_context (the context hash is never written by the
\* master and the router ignores it), candidates_for_command, and the start of
\* decide_route.
DispatchStart(d, work) ==
    /\ disp[d].pc = "idle"
    /\ disp' = [disp EXCEPT ![d] =
                    StartRouting(@, work, CandidatesForCommand(work.command))]
    /\ UNCHANGED <<store, counter, ctl, resultCalls, run, net>>

\* decide_route, lines 30-33: one get_metrics read and one score per candidate;
\* after the last one, lines 35-45 build the decision.
DispatchScore(d) ==
    /\ disp[d].pc = "scoring"
    /\ LET c == disp[d]
           agent_id == c.candidate_list[Len(c.scores) + 1].agent_id
           scores == Append(c.scores, [agent_id |-> agent_id,
                                       score |-> ScoreCandidate(GetMetrics(agent_id))])
       IN disp' = [disp EXCEPT ![d] =
                    IF Len(scores) < Len(c.candidate_list)
                    THEN [@ EXCEPT !.scores = scores]
                    ELSE [@ EXCEPT !.pc = "routed", !.scores = scores,
                                   !.decision = DecideRoute(c.work.command,
                                                            c.candidate_list, scores)]]
    /\ UNCHANGED <<store, counter, ctl, resultCalls, run, net>>

\* dispatch, line 52: _post_work finds the declaration of the selected agent in a
\* fresh registry read and posts the work to its /work endpoint.
DispatchPost(d) ==
    /\ disp[d].pc = "routed"
    /\ IF AgentIndex(GetCapabilities, disp[d].decision.selected_agent) = 0
       THEN /\ disp' = [disp EXCEPT ![d] = Raise(@, "NotRegistered")]
            /\ UNCHANGED net
       ELSE /\ workCalls' = Append(workCalls,
                                [caller |-> d,
                                 to |-> disp[d].decision.selected_agent,
                                 task_id |-> disp[d].work.task_id,
                                 sub_id |-> disp[d].work.sub_id,
                                 command |-> disp[d].work.command,
                                 previous_output |-> None,
                                 context |-> EmptyContext,
                                 reply |-> None])
            /\ inflight' = inflight \cup {Len(workCalls) + 1}
            /\ disp' = [disp EXCEPT ![d] = [@ EXCEPT !.pc = "posted",
                                                     !.call = Len(workCalls) + 1]]
    /\ UNCHANGED <<store, counter, ctl, resultCalls, run>>

\* _post_work, lines 75-80: the response (or the timeout) of the post.
DispatchResponse(d, kind) ==
    /\ disp[d].pc = "posted"
    /\ inflight' = inflight \ {disp[d].call}
    /\ workCalls' = [workCalls EXCEPT ![disp[d].call].reply = kind]
    /\ disp' = [disp EXCEPT ![d] =
                    IF kind # "json" THEN OnPostFailure(@, kind)
                    ELSE [@ EXCEPT !.pc = "lookup"]]
    /\ UNCHANGED <<store, counter, ctl, resultCalls, run>>

\* dispatch, lines 54-56: get_subtask, or the fallback when it returns None.
DispatchLookup(d) ==
    /\ disp[d].pc = "lookup"
    /\ LET stored == GetSubtask(disp[d].work.task_id, disp[d].work.sub_id)
       IN disp' = [disp EXCEPT ![d] =
                    [@ EXCEPT !.pc = "route",
                              !.subtask = IF stored = Null
                                          THEN FallbackSubtask(disp[d].work)
                                          ELSE stored]]
    /\ UNCHANGED <<store, counter, ctl, resultCalls, run, net>>

\* dispatch, line 57: record_route(decision, subtask).
DispatchRecordRoute(d) ==
    /\ disp[d].pc = "route"
    /\ routes' = RecordRoute(routes, disp[d].decision, disp[d].subtask)
    /\ disp' = [disp EXCEPT ![d] = [@ EXCEPT !.pc = "log"]]
    /\ UNCHANGED <<registry, capIndex, metrics, results, subtaskList, subtaskKey,
                   dispatchLog, counter, ctl, resultCalls, run, net>>

\* dispatch, lines 58-67: append_dispatch_log, then return the decision.
DispatchAppendLog(d) ==
    /\ disp[d].pc = "log"
    /\ dispatchLog' = AppendDispatchLog(dispatchLog,
                            DispatchLogEntry(disp[d].work, disp[d].decision))
    /\ disp' = [disp EXCEPT ![d] = [@ EXCEPT !.pc = "done",
                                             !.returned = disp[d].decision]]
    /\ UNCHANGED <<registry, capIndex, metrics, results, subtaskList, subtaskKey,
                   routes, counter, ctl, resultCalls, run, net>>

\* The ResultPayload bodies posted to /result.
ResultPayload(t, s, a, st, o, m) ==
    [task_id |-> t, sub_id |-> s, agent_id |-> a, status |-> st, output |-> o,
     error |-> None, metrics |-> m]
ResultPayloads ==
    { ResultPayload("t1", SubId("t1", 1), "a2", "succeeded", "o1", Null),
      ResultPayload("t1", SubId("t1", 1), "a3", "fatal_failure", "{}",
            [load |-> 9, avg_latency_ms |-> 4000, recent_failures |-> 3]),
      ResultPayload("t2", [task |-> "t2", tag |-> "X", n |-> 0], "a1",
            "retryable_failure", "{}", Null) }

\* Variant for C24: a result is accepted only for a recorded route.
HandleResultValidated(payload) ==
    /\ Len(resultCalls) < MaxResults
    /\ GetRoute(routes, payload.task_id, payload.sub_id) # Null
    /\ results' = RecordResult(results, payload)
    /\ metrics' = RecordResultMetrics(metrics, payload)
    /\ resultCalls' = Append(resultCalls, payload)
    /\ UNCHANGED <<registry, capIndex, subtaskList, subtaskKey, routes, dispatchLog,
                   counter, ctl, run, disp, net>>
\* handle_result: record_result(payload), i.e. the rpush and, when the payload
\* carries metrics, the record of them.
HandleResult(payload) ==
    /\ Len(resultCalls) < MaxResults
    /\ results' = RecordResult(results, payload)
    /\ metrics' = RecordResultMetrics(metrics, payload)
    /\ resultCalls' = Append(resultCalls, payload)
    /\ UNCHANGED <<registry, capIndex, subtaskList, subtaskKey, routes, dispatchLog,
                   counter, ctl, run, disp, net>>

\* The lists of SubTasks passed to store_subtasks: none, two subtasks of t1, one
\* subtask of t1 under the sub id of the first of them, one subtask of t2.
SubtaskBatches ==
    { <<>>,
      DecomposeTask("t1", <<CapabilityDeclaration("a2", <<"retrieve", "evaluate">>, Null)>>, 1),
      DecomposeTask("t1", <<CapabilityDeclaration("a3", <<"evaluate">>, Null)>>, 1),
      DecomposeTask("t2", <<CapabilityDeclaration("a3", <<"finalize">>, Null)>>, 1) }

\* store_subtasks(subtasks), called on the adapter.
StoreSubtasks(subtasks) ==
    /\ \A t \in Tasks :
            LET mine == SelectSeq(subtasks, LAMBDA st : st.task_id = t)
            IN mine = <<>> \/ Len(subtaskList[t]) + Len(mine) <= MaxStored
    /\ subtaskList' = StoreList(subtaskList, subtasks)
    /\ subtaskKey' = StoreKeys(subtaskKey, subtasks)
    /\ UNCHANGED <<registry, capIndex, metrics, results, routes, dispatchLog,
                   counter, ctl, resultCalls, run, disp, net>>

\* handle_task followed await by await, for the calls that run concurrently in one
\* process: the registry read (line 37), the decomposition (line 38; decompose_task
\* holds no await of its own, so it runs without interruption) and store_subtasks
\* (line 39), after which the call returns the decomposition.
IntakeIds == {"h1", "h2"}
IdleIntake == [pc |-> "idle", task_id |-> None, capabilities |-> <<>>, subtasks |-> <<>>]

IntakeRead(h, task) ==
    /\ intake[h].pc \in {"idle", "done"}
    /\ intake' = [intake EXCEPT ![h] = [pc |-> "read", task_id |-> task.task_id,
                                        capabilities |-> GetCapabilities,
                                        subtasks |-> <<>>]]
    /\ UNCHANGED <<store, counter, plan, peerCounter, decomposition, worker,
                   resultCalls, run, disp, net>>

IntakeDecompose(h) ==
    /\ intake[h].pc = "read"
    /\ LET subtasks == DecomposeTask(intake[h].task_id, intake[h].capabilities, counter)
       IN /\ counter + Len(subtasks) - 1 <= MaxCounter
          /\ counter' = counter + Len(subtasks)
          /\ intake' = [intake EXCEPT ![h] = [@ EXCEPT !.pc = "decomposed",
                                                       !.subtasks = subtasks]]
    /\ UNCHANGED <<store, plan, peerCounter, decomposition, worker, resultCalls,
                   run, disp, net>>

IntakeStore(h) ==
    /\ intake[h].pc = "decomposed"
    /\ subtaskList' = StoreList(subtaskList, intake[h].subtasks)
    /\ subtaskKey' = StoreKeys(subtaskKey, intake[h].subtasks)
    /\ decomposition' = [task_id |-> intake[h].task_id, subtasks |-> intake[h].subtasks]
    /\ intake' = [intake EXCEPT ![h] = [@ EXCEPT !.pc = "done"]]
    /\ UNCHANGED <<registry, capIndex, metrics, results, routes, dispatchLog, counter,
                   plan, peerCounter, worker, resultCalls, run, disp, net>>

\* handle_task of a second orchestrator process: the same code over the same store,
\* with the MasterDecomposer (and so the counter) of that process.
PeerHandleTask(task) ==
    LET capabilities == GetCapabilities
        subtasks == DecomposeTask(task.task_id, capabilities, peerCounter)
    IN /\ peerCounter + Len(subtasks) - 1 <= MaxCounter
       /\ peerCounter' = peerCounter + Len(subtasks)
       /\ subtaskList' = StoreList(subtaskList, subtasks)
       /\ subtaskKey' = StoreKeys(subtaskKey, subtasks)
       /\ UNCHANGED <<registry, capIndex, metrics, results, routes, dispatchLog,
                      counter, plan, decomposition, worker, intake, resultCalls, run, disp,
                      workCalls, inflight>>

---------------------------------------------------------------------------
(* ag2_controller/controller.py: AG2Controller.plan_and_route *)

IdlePlan ==
    [pc |-> "idle", task_id |-> None, capabilities |-> <<>>, one_shot |-> FALSE,
     subtasks |-> <<>>, k |-> 0, candidate_list |-> <<>>, scores |-> <<>>,
     routing_results |-> <<>>, error |-> None]

\* lines 50-52: the declarations of `capabilities` that list the target capability.
\* `capabilities` is an Iterable: a list is iterated afresh for every subtask; a
\* one-shot iterator was exhausted by decompose_task and yields nothing.
PlanCandidates(p) ==
    IF p.one_shot THEN <<>>
    ELSE SelectSeq(p.capabilities,
            LAMBDA c : p.subtasks[p.k].target_capability \in Range(c.capabilities))

\* line 47: decompose_task over the capabilities passed by the caller (the caller's
\* registry read, handed over as a list or as a one-shot iterator of it); the ids
\* come from the decomposer of this process.
PlanStart(payload, one_shot) ==
    /\ plan.pc = "idle"
    /\ LET capabilities == GetCapabilities
           subtasks == DecomposeTask(payload.task_id, capabilities, counter)
       IN /\ counter + Len(subtasks) - 1 <= MaxCounter
          /\ counter' = counter + Len(subtasks)
          /\ plan' = [plan EXCEPT !.pc = IF subtasks = <<>> THEN "done" ELSE "filter",
                                  !.task_id = payload.task_id,
                                  !.capabilities = capabilities,
                                  !.one_shot = one_shot,
                                  !.subtasks = subtasks,
                                  !.k = IF subtasks = <<>> THEN 0 ELSE 1]
    /\ UNCHANGED <<store, peerCounter, decomposition, worker, intake, resultCalls, run, disp,
                   net>>

\* lines 49-53: the candidates of subtask k and the start of decide_route; there is
\* no try/except, so its ValueError on an empty list ends plan_and_route.
PlanFilter ==
    /\ plan.pc = "filter"
    /\ LET candidates == PlanCandidates(plan)
       IN plan' = IF candidates = <<>>
                  THEN [plan EXCEPT !.pc = "raised", !.error = "NoCandidates"]
                  ELSE [plan EXCEPT !.pc = "scoring", !.candidate_list = candidates,
                                    !.scores = <<>>]
    /\ UNCHANGED <<store, counter, peerCounter, decomposition, worker, intake, resultCalls,
                   run, disp, net>>

\* decide_route, lines 30-45, for subtask k: one get_metrics read per candidate,
\* which the metrics provider answers (ok) or fails (the exception ends
\* plan_and_route); after the last read the decision is appended (line 54) and the
\* loop moves to the next subtask or returns.
PlanScore(ok) ==
    /\ plan.pc = "scoring"
    /\ LET agent_id == plan.candidate_list[Len(plan.scores) + 1].agent_id
           scores == Append(plan.scores,
                            [agent_id |-> agent_id,
                             score |-> ScoreCandidate(GetMetrics(agent_id))])
       IN plan' =
            IF ~ok THEN [plan EXCEPT !.pc = "raised", !.error = "StoreUnavailable"]
            ELSE IF Len(scores) < Len(plan.candidate_list)
            THEN [plan EXCEPT !.scores = scores]
            ELSE [plan EXCEPT
                    !.pc = IF plan.k = Len(plan.subtasks) THEN "done" ELSE "filter",
                    !.scores = scores,
                    !.routing_results =
                        Append(@, [subtask |-> plan.subtasks[plan.k],
                                   decision |-> DecideRoute(plan.subtasks[plan.k].command,
                                                            plan.candidate_list, scores)]),
                    !.k = IF plan.k = Len(plan.subtasks) THEN @ ELSE @ + 1]
    /\ UNCHANGED <<store, counter, peerCounter, decomposition, worker, intake, resultCalls,
                   run, disp, net>>

---------------------------------------------------------------------------
(* agents/common/base_agent.py: BaseAgent._register_with_master *)

\* range(1, 6): the attempts are numbered 1 to 5.
MaxAttempts == 5
\* The cap of the wait, in seconds.
MaxWait == 10

RECURSIVE Pow2(_)
Pow2(k) == IF k = 0 THEN 1 ELSE 2 * Pow2(k - 1)

\* Variant for C25: the wait doubles without a cap.
BackoffUncapped(attempt) == Pow2(attempt)
\* line 120: min(2 ** attempt, 10)
Backoff(attempt) == Min(Pow2(attempt), MaxWait)

\* attempt: the loop variable (0 before the loop); posts: the POSTs issued; waits:
\* the sleeps taken, in seconds, in order.
IdleWorker == [pc |-> "idle", attempt |-> 0, posts |-> 0, waits |-> <<>>]

\* lines 104-110: the next iteration of the loop posts the declaration.
WorkerPost(a) ==
    /\ worker[a].pc \in {"idle", "retry"}
    /\ worker[a].attempt < MaxAttempts
    /\ worker' = [worker EXCEPT ![a] = [@ EXCEPT !.pc = "posted",
                                                  !.attempt = @ + 1,
                                                  !.posts = @ + 1]]
    /\ UNCHANGED <<store, counter, plan, peerCounter, decomposition, intake, resultCalls,
                   run, disp, net>>

\* lines 111-120: a 2xx response returns; an httpx.HTTPError (timeout, transport
\* error, non-2xx status) ends the loop at attempt 5 and the call raises
\* RuntimeError, else the worker sleeps.
WorkerReply(a, ok) ==
    /\ worker[a].pc = "posted"
    /\ worker' = [worker EXCEPT ![a] =
            IF ok THEN [@ EXCEPT !.pc = "registered"]
            ELSE IF @.attempt = MaxAttempts THEN [@ EXCEPT !.pc = "failed"]
            ELSE [@ EXCEPT !.pc = "sleeping",
                           !.waits = Append(@, Backoff(worker[a].attempt))]]
    /\ UNCHANGED <<store, counter, plan, peerCounter, decomposition, intake, resultCalls,
                   run, disp, net>>

\* line 120: the sleep ends and the loop goes on.
WorkerWake(a) ==
    /\ worker[a].pc = "sleeping"
    /\ worker' = [worker EXCEPT ![a] = [@ EXCEPT !.pc = "retry"]]
    /\ UNCHANGED <<store, counter, plan, peerCounter, decomposition, intake, resultCalls,
                   run, disp, net>>

---------------------------------------------------------------------------
(* Initial state: empty store, fresh decomposer, no call running *)

Init ==
    /\ registry = <<>>
    /\ capIndex = [c \in Capabilities |-> {}]
    /\ metrics = [a \in Agents |-> Null]
    /\ results = [t \in Tasks |-> <<>>]
    /\ subtaskList = [t \in Tasks |-> <<>>]
    /\ subtaskKey = {}
    /\ routes = {}
    /\ dispatchLog = [t \in Tasks |-> <<>>]
    /\ counter = 1
    /\ run = IdleRun
    /\ disp = [d \in DispatchIds |-> IdleDispatch(d)]
    /\ workCalls = <<>>
    /\ inflight = {}
    /\ plan = IdlePlan
    /\ peerCounter = 1
    /\ resultCalls = <<>>
    /\ decomposition = Null
    /\ worker = [a \in Agents |-> IdleWorker]
    /\ intake = [h \in IntakeIds |-> IdleIntake]

\* The pipeline mode: registrations and one pipeline run.
NextPipeline ==
    \/ \E a \in Agents : \E caps \in CapLists(a) : RegisterAgent(a, caps, Null)
    \/ \E task \in TaskObjectives : PipelineStart(task)
    \/ PipelinePost
    \/ \E resp \in WorkResponses : PipelineReceive(resp)

SpecPipeline == Init /\ [][NextPipeline]_vars

\* The declarations registered in the routing mode.
RoutingDeclarations ==
    { CapabilityDeclaration("a2", <<"retrieve", "evaluate">>, Null),
      CapabilityDeclaration("a3", <<"evaluate">>,
            [load |-> 1, avg_latency_ms |-> 100, recent_failures |-> 0]),
      CapabilityDeclaration("a3", <<"finalize">>, Null) }

\* The routing mode: registrations, task intake and two concurrent dispatch calls.
NextDispatch ==
    \/ \E decl \in RoutingDeclarations :
            RegisterAgent(decl.agent_id, decl.capabilities, decl.metrics)
    \/ HandleTask([task_id |-> "t1", context |-> EmptyContext])
    \/ \E d \in DispatchIds : \E work \in WorkRequests : DispatchStart(d, work)
    \/ \E d \in DispatchIds : DispatchScore(d)
    \/ \E d \in DispatchIds : DispatchPost(d)
    \/ \E d \in DispatchIds : \E kind \in {"json", "http_error", "timeout"} :
            DispatchResponse(d, kind)
    \/ \E d \in DispatchIds : DispatchLookup(d)
    \/ \E d \in DispatchIds : DispatchRecordRoute(d)
    \/ \E d \in DispatchIds : DispatchAppendLog(d)

SpecDispatch == Init /\ [][NextDispatch]_vars

\* Routing alone: registrations with and without metrics and one routing call, up
\* to its decision.
SnapshotA == [load |-> 1, avg_latency_ms |-> 100, recent_failures |-> 0]
SnapshotB == [load |-> 9, avg_latency_ms |-> 4000, recent_failures |-> 3]
RouterDeclarations ==
    { CapabilityDeclaration(d[1], d[2], m) :
        d \in { <<"a2", <<"retrieve", "evaluate">> >>, <<"a3", <<"evaluate">> >> },
        m \in {Null, SnapshotA, SnapshotB} }
RouterRequests ==
    { WorkRequest("t1", SubId("t1", 1), c) : c \in {"analyze", "retrieve", "evaluate"} }

NextRouter ==
    \/ \E decl \in RouterDeclarations :
            RegisterAgent(decl.agent_id, decl.capabilities, decl.metrics)
    \/ \E work \in RouterRequests : DispatchStart("d1", work)
    \/ DispatchScore("d1")

SpecRouter == Init /\ [][NextRouter]_vars

\* Scoring alone: the store after one registration of a3 with a snapshot drawn from
\* the bounded ranges (or with none), then one routing call for its capability.
ScoreSnapshots ==
    [load : 0..10, avg_latency_ms : {NoLatency, 0, 100, 1000, 4000},
     recent_failures : 0..MaxFailures]

InitScore ==
    \E m \in ScoreSnapshots \cup {Null} :
        LET decl == CapabilityDeclaration("a3", <<"evaluate">>, m)
        IN /\ registry = HsetRouting(<<>>, decl)
           /\ capIndex = SaddCapIndex([c \in Capabilities |-> {}], decl)
           /\ metrics = IF m = Null THEN [a \in Agents |-> Null]
                        ELSE RecordMetrics([a \in Agents |-> Null], "a3", m)
           /\ results = [t \in Tasks |-> <<>>]
           /\ subtaskList = [t \in Tasks |-> <<>>]
           /\ subtaskKey = {}
           /\ routes = {}
           /\ dispatchLog = [t \in Tasks |-> <<>>]
           /\ counter = 1
           /\ run = IdleRun
           /\ disp = [d \in DispatchIds |-> IdleDispatch(d)]
           /\ workCalls = <<>>
           /\ inflight = {}
           /\ plan = IdlePlan
           /\ peerCounter = 1
           /\ resultCalls = <<>>
           /\ decomposition = Null
           /\ worker = [a \in Agents |-> IdleWorker]
           /\ intake = [h \in IntakeIds |-> IdleIntake]

NextScore ==
    \/ DispatchStart("d1", WorkRequest("t1", SubId("t1", 1), "evaluate"))
    \/ DispatchScore("d1")

SpecScore == InitScore /\ [][NextScore]_vars

\* The controller facade: registrations and one plan_and_route call.
NextPlan ==
    \/ \E a \in Agents : \E caps \in CapLists(a) : RegisterAgent(a, caps, Null)
    \/ \E task \in TaskObjectives : \E one_shot \in BOOLEAN : PlanStart(task, one_shot)
    \/ PlanFilter
    \/ \E ok \in BOOLEAN : PlanScore(ok)

SpecPlan == Init /\ [][NextPlan]_vars

\* Two orchestrator processes over one store: registrations and task intake at
\* either process.
NextInstances ==
    \/ \E decl \in RoutingDeclarations :
            RegisterAgent(decl.agent_id, decl.capabilities, decl.metrics)
    \/ HandleTask([task_id |-> "t1", context |-> EmptyContext])
    \/ PeerHandleTask([task_id |-> "t1", context |-> EmptyContext])

SpecInstances == Init /\ [][NextInstances]_vars

\* Result intake next to dispatch: registrations, /result posts and two dispatch
\* calls.
ResultsDeclarations ==
    { CapabilityDeclaration("a2", <<"retrieve", "evaluate">>, Null),
      CapabilityDeclaration("a3", <<"evaluate">>, SnapshotA) }

NextResults ==
    \/ \E decl \in ResultsDeclarations :
            RegisterAgent(decl.agent_id, decl.capabilities, decl.metrics)
    \/ \E payload \in ResultPayloads : HandleResult(payload)
    \/ \E d \in DispatchIds :
            DispatchStart(d, WorkRequest("t1", SubId("t1", 1), "evaluate"))
    \/ \E d \in DispatchIds : DispatchScore(d)
    \/ \E d \in DispatchIds : DispatchPost(d)
    \/ \E d \in DispatchIds : DispatchResponse(d, "json")
    \/ \E d \in DispatchIds : DispatchLookup(d)
    \/ \E d \in DispatchIds : DispatchRecordRoute(d)
    \/ \E d \in DispatchIds : DispatchAppendLog(d)

SpecResults == Init /\ [][NextResults]_vars

\* The metrics hash: registrations and /result posts carrying snapshots with and
\* without average latency and heartbeat.
MetricsInputs ==
    [load : {0, 5}, avg_latency_ms : {NoLatency, 0, 100}, recent_failures : {0, 1}]
    \cup { [load |-> 5, avg_latency_ms |-> 100, recent_failures |-> 1,
            last_heartbeat |-> "hb1"] }
MetricsDeclarations ==
    { CapabilityDeclaration(d[1], d[2], m) :
        d \in { <<"a2", <<"retrieve">> >>, <<"a3", <<"evaluate">> >> },
        m \in MetricsInputs \cup {Null} }
MetricsPayloads ==
    { ResultPayload("t1", SubId("t1", 1), "a2", "succeeded", "o1",
            [load |-> 5, avg_latency_ms |-> NoLatency, recent_failures |-> 1]),
      ResultPayload("t1", SubId("t1", 1), "a3", "succeeded", "o1",
            [load |-> 0, avg_latency_ms |-> 100, recent_failures |-> 0,
             last_heartbeat |-> "hb2"]) }

NextMetrics ==
    \/ \E decl \in MetricsDeclarations :
            RegisterAgent(decl.agent_id, decl.capabilities, decl.metrics)
    \/ \E payload \in MetricsPayloads : HandleResult(payload)

SpecMetrics == Init /\ [][NextMetrics]_vars

\* The registry under dispatch: registrations and two dispatch calls up to their
\* posts.
NextRegistry ==
    \/ \E decl \in RoutingDeclarations :
            RegisterAgent(decl.agent_id, decl.capabilities, decl.metrics)
    \/ \E d \in DispatchIds : \E work \in WorkRequests : DispatchStart(d, work)
    \/ \E d \in DispatchIds : DispatchScore(d)
    \/ \E d \in DispatchIds : DispatchPost(d)

SpecRegistry == Init /\ [][NextRegistry]_vars

\* Worker start-up: every worker runs _register_with_master once; each POST gets a
\* 2xx response or raises an httpx.HTTPError.
WorkerStep(a) ==
    \/ WorkerPost(a)
    \/ \E ok \in BOOLEAN : WorkerReply(a, ok)
    \/ WorkerWake(a)

NextWorker == \E a \in Agents : WorkerStep(a)

SpecWorker == Init /\ [][NextWorker]_vars

\* The event loop resumes a coroutine whose await is over; the POST ends within its
\* timeout of 15 s (line 109) and a sleep ends after its delay (line 120).
SpecWorkerFair == SpecWorker /\ \A a \in Agents : WF_vars(WorkerStep(a))

\* Result intake next to task intake and dispatch: registrations, handle_task,
\* /result posts and one dispatch call at a time.
NextIntake ==
    \/ \E decl \in ResultsDeclarations :
            RegisterAgent(decl.agent_id, decl.capabilities, decl.metrics)
    \/ HandleTask([task_id |-> "t1", context |-> EmptyContext])
    \/ \E payload \in ResultPayloads : HandleResult(payload)
    \/ DispatchStart("d1", WorkRequest("t1", SubId("t1", 1), "evaluate"))
    \/ DispatchScore("d1")
    \/ DispatchPost("d1")
    \/ DispatchResponse("d1", "json")
    \/ DispatchLookup("d1")
    \/ DispatchRecordRoute("d1")
    \/ DispatchAppendLog("d1")

SpecIntake == Init /\ [][NextIntake]_vars

\* The subtask records: registrations, task intake and direct bulk writes.
StoreDeclarations ==
    { CapabilityDeclaration("a3", <<"finalize">>, Null),
      CapabilityDeclaration("a2", <<"retrieve", "evaluate">>, Null) }

NextStore ==
    \/ \E decl \in StoreDeclarations :
            RegisterAgent(decl.agent_id, decl.capabilities, decl.metrics)
    \/ HandleTask([task_id |-> "t2", context |-> EmptyContext])
    \/ \E subtasks \in SubtaskBatches : StoreSubtasks(subtasks)

SpecStore == Init /\ [][NextStore]_vars

\* Concurrent task intake in one process: registrations and two handle_task calls
\* at a time, each followed await by await.
NextTasks ==
    \/ \E decl \in StoreDeclarations :
            RegisterAgent(decl.agent_id, decl.capabilities, decl.metrics)
    \/ \E h \in IntakeIds : \E t \in Tasks :
            IntakeRead(h, [task_id |-> t, context |-> EmptyContext])
    \/ \E h \in IntakeIds : IntakeDecompose(h)
    \/ \E h \in IntakeIds : IntakeStore(h)

SpecTasks == Init /\ [][NextTasks]_vars

---------------------------------------------------------------------------
(* Properties of the pipeline run (checked under SpecPipeline) *)

\* The /work calls issued by the pipeline run, in issue order.
PipelineCalls == SelectSeq(workCalls, LAMBDA w : w.caller = "pipeline")
StageNames(stage_results) == [k \in 1..Len(stage_results) |-> stage_results[k].stage]
Registered(reg, a, caps) ==
    \E i \in 1..Len(reg) : reg[i].agent_id = a /\ reg[i].capabilities = caps
\* No declaration of the registry lists the capability.
NoRegistrant(reg, capability) ==
    \A i \in 1..Len(reg) : capability \notin Range(reg[i].capabilities)

\* C1: a stage result whose status is not succeeded is the last one of the run: the
\* run has returned, its stage list ends with that stage, no /work call was issued
\* for a later stage, and final_output is that stage's output.
C1_FailedStageEndsRun ==
    \A k \in 1..Len(run.stage_results) :
        run.stage_results[k].status # "succeeded" =>
            /\ k = Len(run.stage_results)
            /\ Len(PipelineCalls) = k
            /\ inflight = {}
            /\ run.pc = "done"
            /\ run.response.stages = run.stage_results
            /\ run.response.final_output = run.stage_results[k].output

\* C1 witness: a2/retrieve answered retryable_failure; the stages are analyze, retrieve.
C1_Witness ==
    /\ run.pc = "done"
    /\ StageNames(run.response.stages) = <<"analyze", "retrieve">>
    /\ run.response.stages[2].agent_id = "a2"
    /\ run.response.stages[2].status = "retryable_failure"
    /\ run.response.final_output = "o2"
    /\ \E i \in 1..Len(run.capabilities) :
            "evaluate" \in Range(run.capabilities[i].capabilities)

\* C2: every pipeline /work call that is no longer in flight, whatever its outcome,
\* has exactly one PipelineStageResult and exactly one persisted ResultPayload, and
\* the run has not raised.
C2_EveryAttemptRecorded ==
    \A i \in 1..Len(workCalls) :
        (workCalls[i].caller = "pipeline" /\ i \notin inflight) =>
            /\ Cardinality({ k \in 1..Len(run.stage_results) :
                    run.stage_results[k].sub_id = workCalls[i].sub_id }) = 1
            /\ Cardinality({ k \in 1..Len(results[workCalls[i].task_id]) :
                    results[workCalls[i].task_id][k].sub_id = workCalls[i].sub_id }) = 1
            /\ run.pc # "raised"

\* The step that starts a run while a mandatory stage has no registrant raises.
C3_MissingStageStep ==
    (run.pc = "idle" /\ run'.pc # "idle"
        /\ \E k \in 1..Len(base_stages) : NoRegistrant(registry, base_stages[k]))
    => (run'.pc = "raised" /\ run'.error = "MissingStageAgent")
\* A run that raised MissingStageAgent has called no worker and recorded nothing.
C3_MissingStageState ==
    run.error = "MissingStageAgent" =>
        /\ run.pc = "raised"
        /\ workCalls = <<>>
        /\ run.stage_results = <<>>
        /\ run.response = Null
        /\ \A t \in Tasks : results[t] = <<>>
\* C3: a run that starts while a mandatory stage (analyze, retrieve or evaluate) has
\* no registrant raises MissingStageAgent in that step, whatever agents the other
\* stages have, and a run that raised it has issued no /work call, holds no stage
\* result and has persisted no result.
C3_MissingStageFailsFirst == [][C3_MissingStageStep]_vars /\ []C3_MissingStageState

\* C3 witness: analyze and retrieve have agents, evaluate has none, and the run raised.
C3_Witness ==
    /\ run.error = "MissingStageAgent"
    /\ ~NoRegistrant(run.capabilities, "analyze")
    /\ ~NoRegistrant(run.capabilities, "retrieve")
    /\ NoRegistrant(run.capabilities, "evaluate")

\* C4: a finished run whose stages all succeeded ran analyze, retrieve, evaluate in
\* order, then finalize iff the registry read held an agent declaring finalize; its
\* final_output is the output of the last stage, as persisted.
C4_AllSucceeded ==
    (run.pc = "done" /\ \A k \in 1..Len(run.stage_results) :
                            run.stage_results[k].status = "succeeded") =>
        LET stages == run.response.stages
            persisted == results[run.task_id]
        IN /\ StageNames(stages) =
                base_stages \o (IF NoRegistrant(run.capabilities, finalize_capability)
                                THEN <<>> ELSE <<finalize_capability>>)
           /\ Len(persisted) = Len(stages)
           /\ run.response.final_output = stages[Len(stages)].output
           /\ run.response.final_output = persisted[Len(persisted)].output

\* C4 witness: a1:[analyze,finalize], a2:[retrieve], a3:[evaluate]; four stages, the
\* finalize output ("o1") differs from the evaluate output ("{}").
C4_Witness ==
    /\ run.pc = "done"
    /\ Registered(run.capabilities, "a1", <<"analyze", "finalize">>)
    /\ Registered(run.capabilities, "a2", <<"retrieve">>)
    /\ Registered(run.capabilities, "a3", <<"evaluate">>)
    /\ StageNames(run.response.stages) = <<"analyze", "retrieve", "evaluate", "finalize">>
    /\ \A k \in 1..4 : run.response.stages[k].status = "succeeded"
    /\ run.response.stages[1].output = "{}"
    /\ run.response.stages[3].output = "{}"
    /\ run.response.stages[4].output = "o1"
    /\ run.response.final_output = "o1"

\* C5: at most one /work call of the run is in flight, the k-th call is for stage k,
\* and when it is issued the results of stages 1..k-1 are recorded and persisted.
C5_StagesSequential ==
    LET n == Len(PipelineCalls)
    IN /\ Cardinality(inflight) <= 1
       /\ \A k \in 1..n : PipelineCalls[k].sub_id = PipelineSubId(run.task_id, k)
       /\ n > 0 => /\ Len(run.stage_results) >= n - 1
                   /\ Len(results[run.task_id]) >= n - 1
                   /\ \A k \in 1..(n - 1) :
                        /\ run.stage_results[k].sub_id = PipelineCalls[k].sub_id
                        /\ results[run.task_id][k].sub_id = PipelineCalls[k].sub_id
       /\ inflight # {} => Len(run.stage_results) = n - 1

\* C5 witness: the call of the third stage is in flight after two recorded stages.
C5_Witness ==
    /\ Len(PipelineCalls) = 3
    /\ inflight = {3}
    /\ Len(run.stage_results) = 2

---------------------------------------------------------------------------
(* Properties of dispatch (checked under SpecDispatch) *)

\* The indices of the /work calls posted by dispatch call d.
CallsOf(d) == { i \in 1..Len(workCalls) : workCalls[i].caller = d }
SameKey(w1, w2) == w1.task_id = w2.task_id /\ w1.sub_id = w2.sub_id
Stored(task_id, sub_id) ==
    { x \in subtaskKey : x.task_id = task_id /\ x.sub_id = sub_id }
Count(seq, e) == Cardinality({ k \in 1..Len(seq) : seq[k] = e })
\* The dispatch-log entry a completed call must have appended.
EntryOf(c) ==
    [task_id |-> c.work.task_id, sub_id |-> c.work.sub_id,
     agent_id |-> c.decision.selected_agent, route_reason |-> c.decision.reason]

\* C6: a dispatch call that completed for a (task_id, sub_id) absent from the store
\* at its lookup returned its decision, and the store then holds a SubTask for that
\* key whose metadata.fallback is true.
C6_FallbackSubtaskStored ==
    \A d \in DispatchIds :
        (disp[d].pc = "done" /\ disp[d].subtask.metadata = [fallback |-> TRUE]) =>
            /\ disp[d].returned = disp[d].decision
            /\ \E x \in Stored(disp[d].work.task_id, disp[d].work.sub_id) :
                    x.metadata = [fallback |-> TRUE]

\* A record_route step of a call leaves its own decision under the key, whatever
\* was stored there, and no other step changes a route.
C7_RecordRouteStep ==
    /\ \A d \in DispatchIds :
        (disp[d].pc = "route" /\ disp'[d].pc = "log") =>
            GetRoute(routes', disp[d].work.task_id, disp[d].work.sub_id)
                = disp[d].decision
    /\ routes' # routes =>
            \E d \in DispatchIds : disp[d].pc = "route" /\ disp'[d].pc = "log"
\* Two completed calls for the same key have each posted once to their selected
\* worker and appended their own log entry; the stored route is one of theirs.
C7_BothCompleted ==
    \A d1, d2 \in DispatchIds :
        (d1 # d2 /\ disp[d1].pc = "done" /\ disp[d2].pc = "done"
            /\ SameKey(disp[d1].work, disp[d2].work)) =>
            /\ \A d \in {d1, d2} :
                /\ Cardinality(CallsOf(d)) = 1
                /\ \A i \in CallsOf(d) :
                        workCalls[i].to = disp[d].decision.selected_agent
                /\ Count(dispatchLog[disp[d].work.task_id], EntryOf(disp[d]))
                    = Cardinality({ e \in {d1, d2} : EntryOf(disp[e]) = EntryOf(disp[d]) })
            /\ GetRoute(routes, disp[d1].work.task_id, disp[d1].work.sub_id)
                \in {disp[d1].decision, disp[d2].decision}
\* C7: two dispatch calls for the same (task_id, sub_id) both run to completion,
\* each posting once to its selected worker and appending its own dispatch-log
\* entry; every record_route overwrites the route of the key with the caller's
\* decision, so the stored route is that of the record_route executed last.
C7_LastRouteWriterWins == [][C7_RecordRouteStep]_vars /\ []C7_BothCompleted

\* C7 witness: both calls completed for the same key with different decisions; d1
\* logged first, yet the stored route is d1's: d1's record_route overwrote d2's.
C7_Witness ==
    /\ disp["d1"].pc = "done" /\ disp["d2"].pc = "done"
    /\ SameKey(disp["d1"].work, disp["d2"].work)
    /\ disp["d1"].decision.selected_agent # disp["d2"].decision.selected_agent
    /\ dispatchLog["t1"] = <<EntryOf(disp["d1"]), EntryOf(disp["d2"])>>
    /\ GetRoute(routes, disp["d1"].work.task_id, disp["d1"].work.sub_id)
        = disp["d1"].decision

\* A call posts at most once, and a failed post has failed the call.
C8_State ==
    \A d \in DispatchIds :
        /\ Cardinality(CallsOf(d)) <= 1
        /\ \A i \in CallsOf(d) :
            workCalls[i].reply \in {"timeout", "http_error"} =>
                /\ disp[d].pc = "raised"
                /\ disp[d].error = workCalls[i].reply
                /\ disp[d].returned = Null
\* A failed call takes no further step.
C8_Step ==
    \A d \in DispatchIds : disp[d].pc = "raised" => disp'[d] = disp[d]
\* C8: a dispatch call posts to at most one worker, at most once; when the reply is
\* a timeout or a non-2xx status the call has failed with that error, returns
\* nothing and stays failed (no further attempt).
C8_FailedPostNotRetried == []C8_State /\ [][C8_Step]_vars

\* C8 witness: a call whose post got a non-2xx reply has failed.
C8_Witness ==
    \E d \in DispatchIds : \E i \in CallsOf(d) :
        workCalls[i].reply = "http_error" /\ disp[d].pc = "raised"

\* A failed call returns no decision.
C9_State ==
    \A d \in DispatchIds : disp[d].pc = "raised" => disp[d].returned = Null
\* Failing steps write nothing and come before the write steps of the call.
C9_Step ==
    /\ \A d \in DispatchIds :
        (disp[d].pc = "idle" /\ disp'[d].pc # "idle"
            /\ NoRegistrant(registry, disp'[d].work.command)) =>
            (disp'[d].pc = "raised" /\ disp'[d].error = "NoCandidates")
    /\ \A d \in DispatchIds :
        (disp[d].pc # "raised" /\ disp'[d].pc = "raised") =>
            /\ disp[d].pc \in {"idle", "scoring", "routed", "posted"}
            /\ routes' = routes
            /\ dispatchLog' = dispatchLog
    /\ (routes' # routes \/ dispatchLog' # dispatchLog) =>
            \E d \in DispatchIds :
                \/ disp[d].pc = "route" /\ disp'[d].pc = "log"
                \/ disp[d].pc = "log" /\ disp'[d].pc = "done"
\* C9: a call that starts while no registered agent declares its command fails; a
\* failed call (no candidates, or a failed post) returns no decision; the step in
\* which a call fails changes neither the routes nor the dispatch log, and a call
\* that fails has not reached its write steps, which are the only steps that
\* change them.
C9_FailureWritesNothing == []C9_State /\ [][C9_Step]_vars

\* C9 witness: one call failed at its post while the other call had completed and
\* left a route and a log entry.
C9_Witness ==
    \E d1, d2 \in DispatchIds :
        /\ disp[d1].pc = "raised" /\ disp[d1].error = "timeout"
        /\ disp[d1].decision # Null
        /\ disp[d2].pc = "done"
        /\ routes # {}
        /\ Len(dispatchLog[disp[d2].work.task_id]) = 1

\* What holds of a call past record_route, and of a call that returned.
C10_State ==
    /\ \A d \in DispatchIds :
        disp[d].pc \in {"log", "done"} =>
            /\ \A i \in CallsOf(d) : workCalls[i].reply = "json"
            /\ CallsOf(d) # {}
            /\ \E e \in DispatchIds :
                /\ disp[e].pc \in {"log", "done"}
                /\ SameKey(disp[e].work, disp[d].work)
                /\ GetRoute(routes, disp[d].work.task_id, disp[d].work.sub_id)
                    = disp[e].decision
    /\ \A d \in DispatchIds :
        disp[d].returned # Null =>
            /\ disp[d].pc = "done"
            /\ disp[d].returned = disp[d].decision
            /\ Count(dispatchLog[disp[d].work.task_id], EntryOf(disp[d]))
                = Cardinality({ e \in DispatchIds :
                        disp[e].pc = "done" /\ EntryOf(disp[e]) = EntryOf(disp[d]) })
    /\ \A t \in Tasks :
        Len(dispatchLog[t]) =
            Cardinality({ d \in DispatchIds : disp[d].pc = "done" /\ disp[d].work.task_id = t })
\* Once the post succeeded the call cannot fail any more.
C10_Step ==
    \A d \in DispatchIds :
        disp[d].pc \in {"lookup", "route", "log"} => disp'[d].pc # "raised"
---------------------------------------------------------------------------
(* Properties of the router (checked under SpecRouter and SpecScore) *)

\* The score recorded for an agent id in a score map.
ScoreOf(scores, a) == (CHOOSE k \in 1..Len(scores) : scores[k].agent_id = a)
ScoredIds(scores) == { scores[k].agent_id : k \in 1..Len(scores) }

\* C11: every decision of decide_route selects a key of its score map; the score map
\* has one entry per candidate agent id; the score of the selected agent is less
\* than or equal to every candidate's score; a sole candidate is selected whatever
\* its metrics; and of A (load 0.1, 0 failures, 100 ms) and B (load 0.9, 3
\* failures, 4000 ms), in either order, A is selected.
C11_DecisionIsMinimum ==
    \A d \in DispatchIds :
        disp[d].decision # Null =>
            LET dec == disp[d].decision
                n == Len(dec.considered)
            IN /\ n > 0
               /\ dec.selected_agent \in ScoredIds(dec.scores)
               /\ Len(dec.scores) = n
               /\ Cardinality(ScoredIds(dec.scores)) = n
               /\ ScoredIds(dec.scores) = { dec.considered[k].agent_id : k \in 1..n }
               /\ \A k \in 1..n :
                    dec.scores[ScoreOf(dec.scores, dec.selected_agent)].score
                        <= dec.scores[k].score
               /\ n = 1 => dec.selected_agent = dec.considered[1].agent_id
               /\ \A i, j \in 1..n :
                    (n = 2 /\ i # j
                        /\ dec.scores[i].score = ScoreCandidate(SnapshotA)
                        /\ dec.scores[j].score = ScoreCandidate(SnapshotB))
                    => dec.selected_agent = dec.scores[i].agent_id

\* C11 witness: a2 was scored with B's metrics first, a3 with A's second, and a3,
\* the second candidate, is selected.
C11_Witness ==
    /\ disp["d1"].pc = "routed"
    /\ disp["d1"].decision.scores =
            << [agent_id |-> "a2", score |-> ScoreCandidate(SnapshotB)],
               [agent_id |-> "a3", score |-> ScoreCandidate(SnapshotA)] >>
    /\ metrics["a2"] = SnapshotB /\ metrics["a3"] = SnapshotA
    /\ disp["d1"].decision.selected_agent = "a3"

\* The score the formula gives for what get_metrics returns: 1.0 without metrics,
\* else load + min(recent_failures, 5) * 0.1 + L / 5000 with L the recorded average
\* latency, or 1000 when none is recorded (in units of 1/5000).
FormulaScore(m) ==
    IF m = Null THEN 5000
    ELSE m.load * 500 + Min(m.recent_failures, 5) * 500
         + (IF m.avg_latency_ms = NoLatency THEN 1000 ELSE m.avg_latency_ms)

\* C12: the score computed for a candidate equals the formula applied to the
\* metrics recorded for it (loads 0.0 to 1.0, failure counts 0 to above 5,
\* latencies none, 0, 100, 1000 and 4000 ms), and 1.0 when none is recorded.
C12_ScoreMatchesFormula ==
    \A d \in DispatchIds :
        disp[d].pc = "routed" =>
            \A k \in 1..Len(disp[d].scores) :
                disp[d].scores[k].score
                    = FormulaScore(GetMetrics(disp[d].scores[k].agent_id))

\* A routing call that starts on an empty candidate list fails in that step.
C13_Step ==
    \A d \in DispatchIds :
        (disp[d].pc = "idle" /\ disp'[d].pc # "idle"
            /\ CandidatesForCommand(disp'[d].work.command) = <<>>) =>
            /\ disp'[d].pc = "raised"
            /\ disp'[d].error = "NoCandidates"
\* A call that failed for want of candidates holds no decision and no score.
C13_State ==
    \A d \in DispatchIds :
        disp[d].error = "NoCandidates" =>
            /\ disp[d].pc = "raised"
            /\ disp[d].candidate_list = <<>>
            /\ disp[d].scores = <<>>
            /\ disp[d].decision = Null
            /\ disp[d].returned = Null
\* C13: decide_route on an empty candidate list fails with the no-candidates error
\* in its first step, for every command, and the failed call holds no decision and
\* no score (one score is recorded per metrics read, so no metrics was read).
C13_EmptyCandidatesFail == [][C13_Step]_vars /\ []C13_State

\* C13 witness: a3 is registered for evaluate only and the call for retrieve failed.
C13_Witness ==
    /\ registry # <<>>
    /\ disp["d1"].error = "NoCandidates"
    /\ disp["d1"].work.command = "retrieve"

---------------------------------------------------------------------------
(* Properties of the controller facade and the decomposer (checked under SpecPlan) *)

\* The subtasks for which plan_and_route has called decide_route.
PlanAttempted == 1..plan.k

\* C14: when plan_and_route has ended, by returning or by a routing failure of one
\* subtask, decide_route has been called for every subtask of the decomposition.
C14_SubtasksIsolated ==
    plan.pc \in {"done", "raised"} =>
        \A j \in 1..Len(plan.subtasks) : j \in PlanAttempted

\* The total of capability occurrences that the declarations of a registry list.
RECURSIVE TotalOccurrences(_)
TotalOccurrences(capabilities) ==
    IF capabilities = <<>> THEN 0
    ELSE Len(Head(capabilities).capabilities) + TotalOccurrences(Tail(capabilities))

\* C15: the decomposition computed from a registry with M capability occurrences has
\* exactly M subtasks (whatever the task), their sub ids are pairwise distinct and
\* each is {task_id}-S{k} for a counter value k >= 1.
C15_OneSubtaskPerOccurrence ==
    plan.pc # "idle" =>
        /\ Len(plan.subtasks) = TotalOccurrences(plan.capabilities)
        /\ \A i, j \in 1..Len(plan.subtasks) :
                i # j => plan.subtasks[i].sub_id # plan.subtasks[j].sub_id
        /\ \A i \in 1..Len(plan.subtasks) :
                /\ plan.subtasks[i].task_id = plan.task_id
                /\ \E k \in 1..MaxCounter :
                        plan.subtasks[i].sub_id = SubId(plan.task_id, k)

\* C15 witness: two agents declaring three capabilities in all give three subtasks.
C15_Witness ==
    /\ Len(plan.capabilities) = 2
    /\ \E i \in 1..2 : Len(plan.capabilities[i].capabilities) = 2
    /\ Len(plan.subtasks) = 3
    /\ plan.task_id = "t2"

\* C16: every subtask of a decomposition has command = target_capability, and the
\* agent named by its metadata.agent_hint is in the registry the decomposition was
\* computed from and declares that capability there.
C16_TargetIsDeclared ==
    \A i \in 1..Len(plan.subtasks) :
        LET st == plan.subtasks[i]
        IN /\ st.command = st.target_capability
           /\ \E j \in 1..Len(plan.capabilities) :
                /\ plan.capabilities[j].agent_id = st.metadata.agent_hint
                /\ st.target_capability \in Range(plan.capabilities[j].capabilities)

\* C16 witness: a subtask targets a capability that only the second agent of the
\* registry declares, and its hint names that agent.
C16_Witness ==
    /\ Len(plan.capabilities) = 2
    /\ \E i \in 1..Len(plan.subtasks) :
        /\ plan.subtasks[i].metadata.agent_hint = plan.capabilities[2].agent_id
        /\ plan.subtasks[i].target_capability
                \notin Range(plan.capabilities[1].capabilities)

---------------------------------------------------------------------------
(* Properties of two orchestrator processes (checked under SpecInstances) *)

\* The positions of the per-task subtask list that carry the sub id.
Emitted(t, sub_id) ==
    { j \in 1..Len(subtaskList[t]) : subtaskList[t][j].sub_id = sub_id }

\* C17: a sub id is emitted at most once by each of the two processes, so at most
\* twice for a task; when it was emitted twice, the subtask stored under
\* (task_id, sub_id) is the one written last: the earlier one is overwritten.
C17_CollidingIdsOverwrite ==
    \A t \in Tasks : \A i \in 1..Len(subtaskList[t]) :
        LET same == Emitted(t, subtaskList[t][i].sub_id)
            last == CHOOSE j \in same : \A k \in same : k <= j
        IN /\ Cardinality(same) <= 2
           /\ GetSubtask(t, subtaskList[t][i].sub_id) = subtaskList[t][last]

\* C17 witness: each process has handled t1 once, both emitted t1-S1 for different
\* subtasks, and the key holds the second one.
C17_Witness ==
    /\ counter = 2 /\ peerCounter = 2
    /\ Len(subtaskList["t1"]) = 2
    /\ subtaskList["t1"][1].sub_id = SubId("t1", 1)
    /\ subtaskList["t1"][2].sub_id = SubId("t1", 1)
    /\ subtaskList["t1"][1] # subtaskList["t1"][2]
    /\ GetSubtask("t1", SubId("t1", 1)) = subtaskList["t1"][2]

---------------------------------------------------------------------------
(* Properties of the result list and the dispatch log (checked under SpecResults) *)

IsPrefix(a, b) == Len(a) <= Len(b) /\ SubSeq(b, 1, Len(a)) = a

\* C18: get_results(task_id) is the sequence of the payloads passed to record_result
\* for that task so far, one entry per call, in call order.
C18_ResultsKeepEveryCall ==
    \A t \in Tasks :
        GetResults(t) = SelectSeq(resultCalls, LAMBDA p : p.task_id = t)

\* C18 witness: two different results for (t1, t1-S1) were recorded, with a result of
\* another task between them, and get_results("t1") returns both.
C18_Witness ==
    /\ Len(resultCalls) = 3
    /\ resultCalls[2].task_id = "t2"
    /\ Len(GetResults("t1")) = 2
    /\ GetResults("t1")[1].sub_id = GetResults("t1")[2].sub_id
    /\ GetResults("t1")[1] # GetResults("t1")[2]

\* No step removes, reorders or rewrites an entry of either list.
C19_Step ==
    \A t \in Tasks :
        /\ IsPrefix(results[t], results'[t])
        /\ IsPrefix(dispatchLog[t], dispatchLog'[t])
\* C19: in every step the result list and the dispatch log of every task keep their
\* content as a prefix of their new content, so every earlier content is a prefix
\* of every later one.
C19_ListsOnlyGrow == [][C19_Step]_vars

\* C19 witness: the dispatch log and the result list of t1 hold two entries each.
C19_Witness ==
    /\ Len(dispatchLog["t1"]) = 2
    /\ Len(results["t1"]) = 2

---------------------------------------------------------------------------
(* Properties of the registry (checked under SpecPlan) *)

\* The declarations get_capabilities returns for an agent id.
DeclarationsOf(reg, a) == { reg[i] : i \in { j \in 1..Len(reg) : reg[j].agent_id = a } }
RegisteredIds(reg) == { reg[i].agent_id : i \in 1..Len(reg) }

\* get_capabilities returns one declaration per agent id.
C20_State ==
    \A i, j \in 1..Len(GetCapabilities) :
        i # j => GetCapabilities[i].agent_id # GetCapabilities[j].agent_id
\* After a register_agent step the registry holds, for the registered id, exactly
\* the declaration just registered, and for every other id what it held before; no
\* other step changes the registry.
C20_Step ==
    /\ \A a \in Agents : \A caps \in CapLists(a) :
        RegisterAgent(a, caps, Null) =>
            /\ DeclarationsOf(registry', a) = {CapabilityDeclaration(a, caps, Null)}
            /\ RegisteredIds(registry') = RegisteredIds(registry) \cup {a}
            /\ \A b \in Agents \ {a} :
                    DeclarationsOf(registry', b) = DeclarationsOf(registry, b)
    /\ registry' # registry =>
            \E a \in Agents : \E caps \in CapLists(a) : RegisterAgent(a, caps, Null)
\* C20: get_capabilities returns exactly one declaration per registered agent id,
\* and every register_agent call leaves the declaration it was given as the one of
\* its id while the declarations of the other ids stay, so each id carries the
\* declaration of its most recent registration.
C20_LatestDeclarationPerAgent == []C20_State /\ [][C20_Step]_vars

\* C20 witness: a1 registered [analyze, finalize] first (it is still in the
\* finalize index), a2 registered, then a1 registered [analyze] again: two
\* declarations, a1's being the later one, at its first position.
C20_Witness ==
    /\ Len(GetCapabilities) = 2
    /\ GetCapabilities[1] = CapabilityDeclaration("a1", <<"analyze">>, Null)
    /\ GetCapabilities[2].agent_id = "a2"
    /\ "a1" \in capIndex["finalize"]

---------------------------------------------------------------------------
(* Properties of the metrics hash (checked under SpecMetrics) *)

\* The last_heartbeat of what get_metrics returns, or of a snapshot.
HeartbeatOf(x) ==
    IF x = Null THEN None ELSE IF HasHeartbeat(x) THEN x.last_heartbeat ELSE None

\* What get_metrics must return after record(snapshot) on an agent whose metrics
\* were `old`: the fields the snapshot supplies, and the earlier value of the others.
RecordedAs(old, new, snapshot) ==
    /\ new # Null
    /\ new.load = snapshot.load
    /\ new.recent_failures = snapshot.recent_failures
    /\ new.avg_latency_ms =
            IF snapshot.avg_latency_ms # NoLatency THEN snapshot.avg_latency_ms
            ELSE IF old = Null THEN NoLatency ELSE old.avg_latency_ms
    /\ HeartbeatOf(new) =
            IF HasHeartbeat(snapshot) THEN snapshot.last_heartbeat ELSE HeartbeatOf(old)

\* A register_agent or handle_result call with a snapshot leaves the metrics of its
\* agent as RecordedAs says; a1, never recorded, has none.
C21_Step ==
    /\ \A decl \in MetricsDeclarations :
        (decl.metrics # Null
            /\ RegisterAgent(decl.agent_id, decl.capabilities, decl.metrics)) =>
            RecordedAs(metrics[decl.agent_id], metrics'[decl.agent_id], decl.metrics)
    /\ \A payload \in MetricsPayloads :
        HandleResult(payload) =>
            RecordedAs(metrics[payload.agent_id], metrics'[payload.agent_id],
                       payload.metrics)
    /\ GetMetrics("a1") = Null
\* C21: after every record call (made by register_agent or by record_result with a
\* snapshot) get_metrics of the agent returns, field by field, the value the
\* snapshot supplied and the earlier value of each field it left unset; an agent
\* never recorded has no metrics.
C21_LastRecordWinsPerField == [][C21_Step]_vars

---------------------------------------------------------------------------
(* Properties of the subtask records (checked under SpecStore) *)

IsSuffix(a, b) == Len(a) <= Len(b) /\ SubSeq(b, Len(b) - Len(a) + 1, Len(b)) = a

\* The store is as a store_subtasks(subtasks) call leaves it: the list of every
\* task ends with the subtasks of that task and every key holds its subtask.
JustStored(subtasks) ==
    /\ subtasks # <<>>
    /\ \A t \in Tasks :
            IsSuffix(SelectSeq(subtasks, LAMBDA st : st.task_id = t), subtaskList[t])
    /\ \A k \in 1..Len(subtasks) :
            GetSubtask(subtasks[k].task_id, subtasks[k].sub_id) = subtasks[k]

\* A store_subtasks call on a store that is as a call with the same subtasks left it
\* changes no subtask record.
C22_Step ==
    \A subtasks \in SubtaskBatches :
        (JustStored(subtasks) /\ StoreSubtasks(subtasks)) =>
            (subtaskList' = subtaskList /\ subtaskKey' = subtaskKey)
\* C22: a store_subtasks call with subtasks that the store already holds as an
\* earlier call with the same subtasks left them changes neither the per-task
\* subtask list nor the per-(task_id, sub_id) keys.
C22_StoreSubtasksIdempotent == [][C22_Step]_vars

\* store_subtasks on the empty list can be called (it does not fail) and writes
\* nothing, in every state.
C23_State ==
    /\ ENABLED StoreSubtasks(<<>>)
    /\ StoreList(subtaskList, <<>>) = subtaskList
    /\ StoreKeys(subtaskKey, <<>>) = subtaskKey
\* handle_task on an empty registry returns an empty decomposition and leaves the
\* store, the counter and the network as they are; store_subtasks([]) changes
\* nothing.
C23_Step ==
    /\ \A t \in Tasks :
        (registry = <<>> /\ HandleTask([task_id |-> t, context |-> EmptyContext])) =>
            /\ decomposition' = [task_id |-> t, subtasks |-> <<>>]
            /\ UNCHANGED <<store, counter, net>>
    /\ StoreSubtasks(<<>>) => UNCHANGED <<store, counter, net>>
\* C23: store_subtasks with an empty list writes nothing and does not fail, and
\* handle_task on an empty registry returns an empty decomposition and changes
\* nothing.
C23_EmptyInputWritesNothing == []C23_State /\ [][C23_Step]_vars

\* C23 witness: handle_task for t2 returned an empty decomposition and the store is
\* still empty.
C23_Witness ==
    /\ decomposition = [task_id |-> "t2", subtasks |-> <<>>]
    /\ registry = <<>>
    /\ counter = 1
    /\ \A t \in Tasks : subtaskList[t] = <<>>
    /\ subtaskKey = {}

---------------------------------------------------------------------------
(* Properties of result intake (checked under SpecIntake) *)

\* handle_result can be called with every payload, whatever the store holds for its
\* task and sub id (up to the number of calls explored).
C24_State ==
    Len(resultCalls) < MaxResults =>
        \A payload \in ResultPayloads : ENABLED HandleResult(payload)
\* A handle_result call appends its payload to the result list of its task, leaves
\* the other result lists, the registry, the capability index, the subtask records,
\* the routes and the dispatch log as they are, changes the metrics of no agent
\* but payload.agent_id, and of that one only when the payload carries metrics, and
\* calls no worker.
C24_Step ==
    \A payload \in ResultPayloads :
        HandleResult(payload) =>
            /\ results' = [results EXCEPT ![payload.task_id] = Append(@, payload)]
            /\ UNCHANGED <<registry, capIndex, subtaskList, subtaskKey, routes,
                           dispatchLog, workCalls, inflight>>
            /\ \A a \in Agents :
                    metrics'[a] # metrics[a] =>
                        (a = payload.agent_id /\ payload.metrics # Null)
\* C24: handle_result appends the payload to the result list of its task for any
\* (task_id, sub_id, agent_id), whether or not a subtask, a route or a dispatch-log
\* entry exists for it, and writes nothing else except the metrics of
\* payload.agent_id when the payload carries metrics.
C24_HandleResultPurePersistence == []C24_State /\ [][C24_Step]_vars

\* C24 witness: a result for (t2, X0), for which the store holds no subtask, no route
\* and no log entry, is recorded next to results for (t1, t1-S1), for which it holds a
\* subtask, a route and a log entry; the metrics of a3 are those of its payload.
C24_Witness ==
    /\ Len(results["t2"]) = 1
    /\ Len(results["t1"]) = 2
    /\ \A x \in subtaskKey : x.task_id = "t1"
    /\ GetSubtask("t1", SubId("t1", 1)) # Null
    /\ GetRoute(routes, "t1", SubId("t1", 1)) # Null
    /\ dispatchLog["t1"] # <<>>
    /\ dispatchLog["t2"] = <<>>
    /\ resultCalls[3].agent_id = "a3"
    /\ metrics["a3"] = [load |-> 9, avg_latency_ms |-> 4000, recent_failures |-> 3]

---------------------------------------------------------------------------
(* Properties of worker registration (checked under SpecWorkerFair) *)

Terminated(a) == worker[a].pc \in {"registered", "failed"}

\* min(2^k, 10) for k = 1..n.
ExpectedWaits(n) == [k \in 1..n |-> IF k = 1 THEN 2 ELSE IF k = 2 THEN 4
                                     ELSE IF k = 3 THEN 8 ELSE 10]

\* At most 5 POSTs; one wait after each failed attempt but the 5th, the k-th of
\* min(2^k, 10) seconds; permanent failure only after the 5th failed attempt.
C25_State ==
    \A a \in Agents :
        LET w == worker[a]
            failed == IF w.pc \in {"posted", "registered"} THEN w.posts - 1 ELSE w.posts
        IN /\ w.posts <= 5
           /\ w.posts = w.attempt
           /\ w.waits = ExpectedWaits(IF failed = 5 THEN 4 ELSE failed)
           /\ w.pc = "failed" => (w.posts = 5 /\ Len(w.waits) = 4)
           /\ w.pc \in {"sleeping", "retry"} => w.posts < 5
\* A registered or failed worker posts, waits and changes no more, and a success
\* is followed by a return at once.
C25_Step ==
    \A a \in Agents :
        /\ Terminated(a) => worker'[a] = worker[a]
        /\ WorkerReply(a, TRUE) =>
                (worker'[a].pc = "registered" /\ worker'[a].posts = worker[a].posts
                    /\ worker'[a].waits = worker[a].waits)
\* C25: worker registration terminates after at most 5 POST attempts: it returns at
\* the first successful attempt without trying again, waits min(2^k, 10) seconds
\* after failed attempt k < 5, and fails permanently after the 5th failed attempt
\* without a further wait or attempt.
C25_RegistrationTerminates ==
    /\ []C25_State
    /\ [][C25_Step]_vars
    /\ \A a \in Agents : <>Terminated(a)

\* C25 witness: a1 failed permanently after 5 POSTs and waits of 2, 4, 8 and 10
\* seconds, a2 registered at its first attempt, a3 at its third after two waits.
C25_Witness ==
    /\ worker["a1"].pc = "failed"
    /\ worker["a1"].posts = 5
    /\ worker["a1"].waits = <<2, 4, 8, 10>>
    /\ worker["a2"].pc = "registered"
    /\ worker["a2"].posts = 1
    /\ worker["a2"].waits = <<>>
    /\ worker["a3"].pc = "registered"
    /\ worker["a3"].waits = <<2, 4>>

---------------------------------------------------------------------------
(* Ties of the router (checked under SpecRouter) *)

\* The positions of a sequence of numbers that hold its minimum.
MinPositions(seq) == { k \in 1..Len(seq) : \A j \in 1..Len(seq) : seq[k] <= seq[j] }
FirstMinPosition(seq) == CHOOSE k \in MinPositions(seq) : \A j \in MinPositions(seq) : k <= j

\* C26: every decision selects the candidate at the first position of the candidate
\* list among those that hold the minimal score, and while the metrics are those
\* that were scored, the selected agent is the one that the candidate list and the
\* metrics determine.
C26_TiesSelectFirst ==
    \A d \in DispatchIds :
        disp[d].decision # Null =>
            LET dec == disp[d].decision
                n == Len(dec.considered)
                first == FirstMinPosition([k \in 1..n |-> dec.scores[k].score])
                now == [k \in 1..n |-> ScoreCandidate(GetMetrics(dec.considered[k].agent_id))]
            IN /\ dec.selected_agent = dec.considered[first].agent_id
               /\ dec.scores[first].agent_id = dec.selected_agent
               /\ (\A k \in 1..n : dec.scores[k].score = now[k]) =>
                    dec.selected_agent = dec.considered[FirstMinPosition(now)].agent_id

\* C26 witness: a3 was registered before a2, both without metrics, both are scored
\* 1.0 and a3, the first candidate, is selected.
C26_Witness ==
    /\ disp["d1"].pc = "routed"
    /\ Len(disp["d1"].decision.considered) = 2
    /\ disp["d1"].decision.considered[1].agent_id = "a3"
    /\ disp["d1"].decision.scores[1].score = disp["d1"].decision.scores[2].score
    /\ metrics["a2"] = Null /\ metrics["a3"] = Null
    /\ disp["d1"].decision.selected_agent = "a3"

---------------------------------------------------------------------------
(* The requests of a pipeline run (checked under SpecPipeline) *)

\* The context the task of the run was submitted with.
InitialContext ==
    (CHOOSE task \in TaskObjectives : task.task_id = run.task_id).context

\* The context expected in the k-th request: the initial context, with the output
\* of every stage before the k-th under the key of that stage.
ExpectedContext(k) ==
    [key \in ContextKeys |->
        IF \E j \in 1..(k - 1) : key = "stage_" \o run.stage_results[j].stage
        THEN run.stage_results[CHOOSE j \in 1..(k - 1) :
                                    key = "stage_" \o run.stage_results[j].stage].output
        ELSE InitialContext[key]]

\* C27: the k-th work request of a pipeline run is for the k-th stage; the first
\* carries previous_output = None and the initial context of the task; every later
\* one carries the output of stage k - 1 as previous_output and the initial context
\* extended by the output of each of the stages 1..k-1, all of which succeeded,
\* under the key of that stage, and by nothing else.
C27_RequestsCarryEarlierOutputs ==
    \A k \in 1..Len(workCalls) :
        LET w == workCalls[k]
        IN /\ w.caller = "pipeline"
           /\ w.command = run.stage_agents[k].capability
           /\ Len(run.stage_results) >= k - 1
           /\ \A j \in 1..(k - 1) :
                /\ run.stage_results[j].status = "succeeded"
                /\ run.stage_results[j].stage = run.stage_agents[j].capability
           /\ w.previous_output =
                IF k = 1 THEN None ELSE run.stage_results[k - 1].output
           /\ w.context = ExpectedContext(k)
           /\ k = 1 => w.context = InitialContext

\* C27 witness: the fourth request of the run for t2 carries the hint of the task and
\* the outputs of the three stages before it, two of which differ, and the output
\* of the third as previous_output.
C27_Witness ==
    /\ Len(workCalls) = 4
    /\ run.task_id = "t2"
    /\ workCalls[4].context["hint"] = "h"
    /\ workCalls[4].context["stage_analyze"] = "o1"
    /\ workCalls[4].context["stage_retrieve"] = "{}"
    /\ workCalls[4].context["stage_evaluate"] = "o1"
    /\ workCalls[4].context["stage_finalize"] = Absent
    /\ workCalls[4].previous_output = "o1"
    /\ workCalls[2].previous_output = "o1"
    /\ workCalls[3].previous_output = "{}"
    /\ workCalls[1].previous_output = None

\* The positions of the registry read of the run whose declaration lists the
\* capability.
Declaring(capability) ==
    { i \in 1..Len(run.capabilities) :
        capability \in Range(run.capabilities[i].capabilities) }

\* C28: every stage of a pipeline run is a capability that some declaration of the
\* registry read lists, its agent is the one of the first such declaration in the
\* order of that read, and every request of the run goes to the agent of its
\* stage.
C28_FirstDeclaringAgentPerStage ==
    /\ \A k \in 1..Len(run.stage_agents) :
            LET stage == run.stage_agents[k]
            IN /\ Declaring(stage.capability) # {}
               /\ \A i \in Declaring(stage.capability) :
                    (\A j \in Declaring(stage.capability) : i <= j) =>
                        stage.agent_id = run.capabilities[i].agent_id
    /\ \A k \in 1..Len(workCalls) :
            /\ workCalls[k].to = run.stage_agents[k].agent_id
            /\ workCalls[k].command = run.stage_agents[k].capability

\* C28 witness: a3 was registered before a2 and both list evaluate, a1 lists analyze
\* and finalize; the run called a1 for analyze, a2 for retrieve, a3 for evaluate
\* and a1 again for finalize.
C28_Witness ==
    /\ Len(workCalls) = 4
    /\ Len(run.capabilities) = 3
    /\ AgentIndex(run.capabilities, "a3") < AgentIndex(run.capabilities, "a2")
    /\ Declaring("evaluate") = { AgentIndex(run.capabilities, "a3"),
                                 AgentIndex(run.capabilities, "a2") }
    /\ workCalls[1].to = "a1" /\ workCalls[1].command = "analyze"
    /\ workCalls[2].to = "a2" /\ workCalls[2].command = "retrieve"
    /\ workCalls[3].to = "a3" /\ workCalls[3].command = "evaluate"
    /\ workCalls[4].to = "a1" /\ workCalls[4].command = "finalize"

---------------------------------------------------------------------------
(* Task intake in the routing mode (checked under SpecDispatch) *)

\* The subtasks of the decomposition that the last handle_task call returned.
Returned == IF decomposition = Null THEN <<>> ELSE decomposition.subtasks

\* Every subtask of the returned decomposition is stored under its key with the
\* content returned, and the subtask list of its task ends with the returned
\* subtasks in the returned order.
C29_State ==
    /\ \A k \in 1..Len(Returned) :
            /\ Returned[k].task_id = decomposition.task_id
            /\ GetSubtask(Returned[k].task_id, Returned[k].sub_id) = Returned[k]
    /\ decomposition # Null => IsSuffix(Returned, subtaskList[decomposition.task_id])
\* handle_task (every step of it that is not a stuttering step changes the returned
\* decomposition) returns what it stores and writes no route, result, dispatch-log,
\* registry, capability-index or metrics record and calls no worker; the lookup of
\* a dispatch call for a stored sub id yields the stored subtask, not the fallback.
C29_Step ==
    /\ \A t \in Tasks :
        (decomposition' # decomposition
            /\ HandleTask([task_id |-> t, context |-> EmptyContext])) =>
            /\ subtaskList'[t] = subtaskList[t] \o decomposition'.subtasks
            /\ \A u \in Tasks \ {t} : subtaskList'[u] = subtaskList[u]
            /\ subtaskKey' = subtaskKey \cup Range(decomposition'.subtasks)
            /\ UNCHANGED <<registry, capIndex, metrics, results, routes, dispatchLog,
                           workCalls, inflight>>
    /\ \A d \in DispatchIds :
        (DispatchLookup(d)
            /\ GetSubtask(disp[d].work.task_id, disp[d].work.sub_id) # Null) =>
            /\ disp'[d].subtask = GetSubtask(disp[d].work.task_id, disp[d].work.sub_id)
            /\ disp'[d].subtask # FallbackSubtask(disp[d].work)
            /\ "fallback" \notin DOMAIN disp'[d].subtask.metadata
\* C29: after handle_task returns, every subtask of the returned decomposition is
\* retrievable by get_subtask with identical content and the subtask list of the
\* task holds the returned subtasks in returned order, so a later dispatch for
\* such a sub id does not use the fallback subtask; handle_task writes no route,
\* result, dispatch-log, registry or metrics record and calls no worker.
C29_HandleTaskPersistsDecomposition == []C29_State /\ [][C29_Step]_vars

\* C29 witness: handle_task returned two subtasks, both stored, and the dispatch call
\* d1 for the sub id of the first looked up that subtask; no route, result or log
\* entry is written yet.
C29_Witness ==
    /\ Len(Returned) = 2
    /\ subtaskList["t1"] = Returned
    /\ disp["d1"].pc = "route"
    /\ disp["d1"].subtask = Returned[1]
    /\ routes = {}
    /\ dispatchLog["t1"] = <<>>
    /\ results["t1"] = <<>>

\* The call has posted the work to its selected agent and got a 2xx response.
PostedSuccessfully(c) ==
    \E i \in 1..Len(workCalls) :
        /\ workCalls[i].caller = c.id
        /\ workCalls[i].to = c.decision.selected_agent
        /\ workCalls[i].task_id = c.work.task_id
        /\ workCalls[i].sub_id = c.work.sub_id
        /\ workCalls[i].reply = "json"

\* A call that has written its route or its log entry had its post answered; a
\* route is stored for the key of every call that is past its route write; the
\* dispatch log of a task holds exactly one entry per completed call for the task,
\* and none for a call that failed or has not yet written its route.
C30_State ==
    /\ \A d \in DispatchIds :
        disp[d].pc \in {"route", "log", "done"} => PostedSuccessfully(disp[d])
    /\ \A d \in DispatchIds :
        disp[d].pc \in {"log", "done"} =>
            GetRoute(routes, disp[d].work.task_id, disp[d].work.sub_id) # Null
    /\ \A t \in Tasks :
        /\ Len(dispatchLog[t])
            = Cardinality({ d \in DispatchIds :
                                disp[d].pc = "done" /\ disp[d].work.task_id = t })
        /\ \A k \in 1..Len(dispatchLog[t]) :
            \E d \in DispatchIds :
                /\ disp[d].pc = "done"
                /\ dispatchLog[t][k] = EntryOf(disp[d])
\* The dispatch log changes only by the append of the entry of a call that is past
\* its route write, and a route changes only by the write of a call whose post
\* was answered.
C30_Step ==
    /\ dispatchLog' # dispatchLog =>
        \E d \in DispatchIds :
            /\ disp[d].pc = "log" /\ disp'[d].pc = "done"
            /\ PostedSuccessfully(disp[d])
            /\ GetRoute(routes, disp[d].work.task_id, disp[d].work.sub_id) # Null
            /\ dispatchLog' = [dispatchLog EXCEPT ![disp[d].work.task_id] =
                                    Append(@, EntryOf(disp[d]))]
    /\ routes' # routes =>
        \E d \in DispatchIds :
            /\ disp[d].pc = "route" /\ disp'[d].pc = "log"
            /\ PostedSuccessfully(disp[d])
\* C30: a dispatch-log entry for (task_id, sub_id, agent) is appended only after the
\* same dispatch call has posted the work to that agent with success and has
\* written its route decision; no log entry exists for a call that posted no work
\* or wrote no route.
C30_LogOnlyAfterPostAndRoute == []C30_State /\ [][C30_Step]_vars

\* C30 witness: d1 posted to its selected agent and wrote its route while d2 failed at
\* its post; the route exists and the dispatch log is empty.
C30_Witness ==
    /\ disp["d1"].pc = "log"
    /\ PostedSuccessfully(disp["d1"])
    /\ GetRoute(routes, disp["d1"].work.task_id, disp["d1"].work.sub_id)
        = disp["d1"].decision
    /\ disp["d2"].pc = "raised"
    /\ disp["d2"].error \in {"timeout", "http_error"}
    /\ dispatchLog["t1"] = <<>>

---------------------------------------------------------------------------
(* Properties of the registry under dispatch (checked under SpecRegistry) *)

InRegistry(reg, a) == AgentIndex(reg, a) # 0

\* No dispatch call failed at the registry lookup of its post, and the selected
\* agent of every decision is in the registry.
C31_State ==
    \A d \in DispatchIds :
        /\ disp[d].error # "NotRegistered"
        /\ disp[d].decision # Null =>
                InRegistry(GetCapabilities, disp[d].decision.selected_agent)
        /\ disp[d].pc = "posted" =>
                workCalls[disp[d].call].to = disp[d].decision.selected_agent
\* A registered agent stays registered, at its position, in every step, and a
\* register_agent call leaves its agent registered with the declaration passed.
C31_Step ==
    /\ \A a \in Agents :
        InRegistry(registry, a) => AgentIndex(registry', a) = AgentIndex(registry, a)
    /\ \A decl \in RoutingDeclarations :
        RegisterAgent(decl.agent_id, decl.capabilities, decl.metrics) =>
            /\ InRegistry(registry', decl.agent_id)
            /\ registry'[AgentIndex(registry', decl.agent_id)] = decl
\* C31: no step removes an agent from the registry: once register_agent for an agent
\* id has completed, get_capabilities returns a declaration for that id ever after;
\* so the agent selected by routing inside dispatch is found by the registry
\* lookup of the post, and no dispatch call fails with 'Agent not registered'.
C31_RegistryNeverShrinks == []C31_State /\ [][C31_Step]_vars

\* C31 witness: d1 selected a3 from its declaration listing evaluate; a3 registered
\* again, for finalize only, before the lookup of the post, which found it.
C31_Witness ==
    /\ disp["d1"].pc = "posted"
    /\ disp["d1"].decision.selected_agent = "a3"
    /\ workCalls[disp["d1"].call].to = "a3"
    /\ Len(registry) = 2
    /\ registry[AgentIndex(registry, "a3")].capabilities = <<"finalize">>

\* The agents whose declaration in the registry lists the capability.
Listing(reg, c) ==
    { reg[i].agent_id : i \in { j \in 1..Len(reg) : c \in Range(reg[j].capabilities) } }
AgentIds(declarations) == { declarations[k].agent_id : k \in 1..Len(declarations) }

\* candidates_for_command(c) returns one declaration, the current one, for each
\* registered agent whose current declaration lists c, and no other; every such
\* agent is in the index set of c.
C32_State ==
    \A c \in Capabilities :
        LET candidates == CandidatesForCommand(c)
        IN /\ AgentIds(candidates) = Listing(registry, c)
           /\ Len(candidates) = Cardinality(Listing(registry, c))
           /\ \A k \in 1..Len(candidates) :
                candidates[k] = registry[AgentIndex(registry, candidates[k].agent_id)]
           /\ Listing(registry, c) \subseteq capIndex[c]
\* A dispatch call that reads the registry takes as candidates the agents whose
\* declaration lists its command at that read, and the agent it selects is one of
\* them; no index set loses a member.
C32_Step ==
    /\ \A d \in DispatchIds :
        (disp[d].pc = "idle" /\ disp'[d].pc # "idle") =>
            AgentIds(disp'[d].candidate_list) = Listing(registry, disp'[d].work.command)
    /\ \A d \in DispatchIds :
        (disp[d].decision = Null /\ disp'[d].decision # Null) =>
            /\ disp'[d].decision.considered = disp[d].candidate_list
            /\ disp'[d].decision.selected_agent \in AgentIds(disp[d].candidate_list)
    /\ \A c \in Capabilities : capIndex[c] \subseteq capIndex'[c]
\* C32: candidates_for_command(c) returns exactly the registered agents whose
\* current declaration lists c: an agent that registered again without c is no
\* candidate for c and is not selected for it by a dispatch that reads the
\* registry afterwards, although its id stays in the index set of c, which never
\* shrinks.
C32_CandidatesFollowDeclarations == []C32_State /\ [][C32_Step]_vars

\* C32 witness: a3 registered before a2, for evaluate (d2 selected it) and then for
\* finalize only; it is still in the index set of evaluate, and the call d1 for
\* evaluate considered a2 alone and selected it.
C32_Witness ==
    /\ "a3" \in capIndex["evaluate"]
    /\ "a3" \in capIndex["finalize"]
    /\ InRegistry(registry, "a3")
    /\ registry[AgentIndex(registry, "a3")].capabilities = <<"finalize">>
    /\ metrics["a3"] # Null
    /\ AgentIndex(registry, "a3") < AgentIndex(registry, "a2")
    /\ disp["d1"].pc = "routed"
    /\ disp["d1"].work.command = "evaluate"
    /\ AgentIds(disp["d1"].decision.considered) = {"a2"}
    /\ disp["d1"].decision.selected_agent = "a2"
    /\ disp["d2"].pc = "posted"
    /\ disp["d2"].decision.selected_agent = "a3"

---------------------------------------------------------------------------
(* The registry read of a pipeline run (checked under SpecPipeline) *)

\* The first agent of a list of declarations that lists the capability.
FirstListing(declarations, c) ==
    LET hits == { i \in 1..Len(declarations) : c \in Range(declarations[i].capabilities) }
    IN declarations[CHOOSE i \in hits : \A j \in hits : i <= j].agent_id

\* The stages of a run that started on the registry read `declarations`: the three
\* base stages and, when some declaration of the read lists it, finalize.
StagesOfRead(declarations) ==
    IF Listing(declarations, "finalize") = {}
    THEN <<"analyze", "retrieve", "evaluate">>
    ELSE <<"analyze", "retrieve", "evaluate", "finalize">>

\* The stages and the agents of a run that found its base stages are those of its
\* registry read, and its requests go to them in order (a run stops early only at
\* a stage that failed).
C33_State ==
    run.pc \in {"ready", "waiting", "done"} \/ (run.pc = "raised" /\ workCalls # <<>>) =>
        LET stages == StagesOfRead(run.capabilities)
        IN /\ Len(run.stage_agents) = Len(stages)
           /\ \A k \in 1..Len(stages) :
                /\ run.stage_agents[k].capability = stages[k]
                /\ run.stage_agents[k].agent_id = FirstListing(run.capabilities, stages[k])
           /\ Len(workCalls) <= Len(stages)
           /\ \A k \in 1..Len(workCalls) :
                /\ workCalls[k].command = stages[k]
                /\ workCalls[k].to = FirstListing(run.capabilities, stages[k])
           /\ (run.pc = "done" /\ \A k \in 1..Len(run.stage_results) :
                                    run.stage_results[k].status = "succeeded") =>
                Len(workCalls) = Len(stages)
\* A run that has started keeps its registry read and its stage agents in every
\* step, whatever is registered.
C33_Step ==
    run.pc # "idle" =>
        /\ run'.capabilities = run.capabilities
        /\ run'.stage_agents = run.stage_agents
\* C33: a pipeline run chooses all its stage agents from the one registry read taken
\* at its start: registrations that complete while the run is in progress change
\* neither which agents are called nor whether the finalize stage runs.
C33_StageAgentsFromOneRead == []C33_State /\ [][C33_Step]_vars

\* C33 witness: the run started on a read in which a2 is the first to list evaluate
\* and nobody lists finalize; by its end a1 lists finalize and a3 alone lists
\* evaluate; the run called a2 for evaluate, all three stages succeeded and it
\* ended without a finalize stage.
C33_Witness ==
    /\ run.pc = "done"
    /\ Len(workCalls) = 3
    /\ \A k \in 1..3 : run.stage_results[k].status = "succeeded"
    /\ Listing(run.capabilities, "finalize") = {}
    /\ Listing(registry, "finalize") = {"a1"}
    /\ FirstListing(run.capabilities, "evaluate") = "a2"
    /\ Listing(registry, "evaluate") = {"a3"}
    /\ workCalls[3].to = "a2"

---------------------------------------------------------------------------
(* Sub ids of one process under concurrent task intake (checked under SpecTasks) *)

\* Where an emitted subtask is: at a position of the subtask list of its task, or,
\* when its call has not stored it yet, at a position of the decomposition the
\* call holds.
EmittedAt ==
    UNION { { <<t, k>> : k \in 1..Len(subtaskList[t]) } : t \in Tasks }
        \cup UNION { { <<h, k>> : k \in 1..Len(intake[h].subtasks) } :
                        h \in { g \in IntakeIds : intake[g].pc = "decomposed" } }
SubtaskAt(pos) ==
    IF pos[1] \in Tasks THEN subtaskList[pos[1]][pos[2]] ELSE intake[pos[1]].subtasks[pos[2]]

\* The emitted sub ids are {task_id}-S{n} with pairwise distinct n, and the values
\* of n are those below the next value of the counter.
C34_State ==
    /\ \A pos \in EmittedAt :
            SubtaskAt(pos).sub_id
                = [task |-> SubtaskAt(pos).task_id, tag |-> "S", n |-> SubtaskAt(pos).sub_id.n]
    /\ \A p, q \in EmittedAt :
            p # q => SubtaskAt(p).sub_id.n # SubtaskAt(q).sub_id.n
    /\ { SubtaskAt(pos).sub_id.n : pos \in EmittedAt } = 1..(counter - 1)
\* The counter never goes back, and a decomposition numbers its subtasks in order
\* from the next value of the counter on, above every value emitted before.
C34_Step ==
    /\ counter' >= counter
    /\ \A h \in IntakeIds :
        (intake[h].pc = "read" /\ intake'[h].pc = "decomposed") =>
            /\ counter' = counter + Len(intake'[h].subtasks)
            /\ \A k \in 1..Len(intake'[h].subtasks) :
                /\ intake'[h].subtasks[k].sub_id.n = counter + k - 1
                /\ \A pos \in EmittedAt :
                        SubtaskAt(pos).sub_id.n < intake'[h].subtasks[k].sub_id.n
\* C34: within one orchestrator process sub ids are never reused: over every
\* interleaving of handle_task calls, repeated submissions of one task id
\* included, every emitted sub id carries a distinct counter value, and the
\* values grow strictly in emission order.
C34_SubIdsNeverReused == []C34_State /\ [][C34_Step]_vars

\* C34 witness: two concurrent handle_task calls for t1; h1 decomposed first and got
\* t1-S1, h2 second and got t1-S2, and h2 stored first, so that the subtask list
\* holds t1-S2 before t1-S1.
C34_Witness ==
    /\ intake["h1"].pc = "done" /\ intake["h2"].pc = "done"
    /\ intake["h1"].task_id = "t1" /\ intake["h2"].task_id = "t1"
    /\ Len(intake["h1"].subtasks) = 1 /\ Len(intake["h2"].subtasks) = 1
    /\ intake["h1"].subtasks[1].sub_id = SubId("t1", 1)
    /\ intake["h2"].subtasks[1].sub_id = SubId("t1", 2)
    /\ subtaskList["t1"] = intake["h2"].subtasks \o intake["h1"].subtasks
    /\ counter = 3

====
